---- MODULE Spec2Model ----
(***************************************************************************)
(* Smart Bartender hardware control (hardware.py, config.py).              *)
(*                                                                         *)
(* One BartenderHardware instance: four reservoirs, each with a pump, a   *)
(* valve, a float switch, an estimated level, a refilling flag and a       *)
(* non-reentrant lock.  Threads: the level monitor, and a pool of worker   *)
(* threads each running one pour() or one refill_reservoir() call.  Every  *)
(* access to a shared field (a dictionary read or store, a device write)   *)
(* is one step; purely local computation is folded into the preceding      *)
(* step.                                                                   *)
(*                                                                         *)
(* Volumes and levels are integers in units of 1/Scale ml, so that the     *)
(* simulated fill step (PUMP_FLOW_RATE / 60) * 0.5 = 11/6 ml is exact.     *)
(* Time is counted in ticks of the 0.5 s polling sleep.                    *)
(***************************************************************************)
EXTENDS Integers, FiniteSets, Sequences, TLC

\* ---------------------------------------------------------------- config.py
PUMP_PINS == {1, 2, 3, 4}
VALVE_PINS == {1, 2, 3, 4}
FLOAT_PINS == {1, 2, 3, 4}
RESERVOIR_CAPACITY_ML == 400
REFILL_THRESHOLD_ML == 100
PUMP_FLOW_RATE == 220
\* ML_PER_SECOND[v], the same for the four valves
ML_PER_SECOND == 8
MAX_POUR_TIME == 30
REFILL_TIMEOUT == 120

\* ------------------------------------------------------------------- units
Scale == 6
TicksPerSecond == 2
Capacity == RESERVOIR_CAPACITY_ML * Scale
Threshold == REFILL_THRESHOLD_ML * Scale
\* fill_rate_per_check = (PUMP_FLOW_RATE / 60) * 0.5 ml, in 1/Scale ml
FillPerCheck == (PUMP_FLOW_RATE * Scale) \div (60 * TicksPerSecond)
\* the argument of time.sleep in pour is kept in milliseconds
Millis == 1000

\* ------------------------------------------------------------------ bounds
MaxTasks == 2
MaxPolls == 2
\* pours that open a valve, and injected exceptions, in one behaviour
MaxPours == 2
MaxFaults == 1
\* device reads and writes that raise, in one behaviour
MaxIoFaults == 1
\* auto-stop timer threads of the test routes alive at a time
MaxTimers == 2

Tasks == 1..MaxTasks
\* the reservoirs the callers draw from; the others stay full, and their
\* float switches stay high
Drawn == {1}
\* reservoir numbers the callers pass: the drawn ones and the out-of-range 0, 5
CallIds == Drawn \cup {0, 5}
\* volumes the callers pass to pour, in ml
PourVolumes == {-50, 0, 300}

Min(a, b) == IF a < b THEN a ELSE b

VARIABLES simulation_mode, running, reservoir_levels, refilling, refill_locks,
          pumps, valves, monitor, task, used, io_faults,
          main, closed, status, test_state, timers

hwvars == <<simulation_mode, running, reservoir_levels, refilling, refill_locks,
            pumps, valves>>
\* The main thread (the constructor, the server, cleanup), the device
\* handles once closed, and the status dictionary of app.py.
\* The test-mode dictionary of app.py and the auto-stop timer threads.
testvars == <<test_state, timers>>
sysvars == <<main, closed, status, testvars>>
vars == <<simulation_mode, running, reservoir_levels, refilling, refill_locks,
          pumps, valves, monitor, task, used, io_faults, main, closed, status,
          test_state, timers>>

\* One thread: its position, the call it runs and the call's locals.  at_call
\* remembers the level of the reservoir when pour was called, and the level
\* a refill read at line 252; out tells how the call leaves (for a refill in
\* flight: how it left the polling loop) and ret holds the value it returns
\* (empty for None).  A drink thread of app.py keeps its drink and the
\* position of the ingredient it is at.
IdleTask == [pc |-> "idle", op |-> "none", r |-> 0, ml |-> 0, tmp |-> 0,
             needed |-> 0, polls |-> 0, out |-> "none", wait |-> 0,
             at_call |-> 0, drink |-> 0, step |-> 0, ret |-> <<>>]

Done(op, r, ml, out) == [IdleTask EXCEPT !.pc = "done", !.op = op, !.r = r,
                                         !.ml = ml, !.out = out]

\* What one behaviour has consumed of the budgets, and the total volume of the
\* pours that have returned, per reservoir (in 1/Scale ml).
NothingUsed == [pours |-> 0, faults |-> 0, poured |-> [r \in PUMP_PINS |-> 0]]

\* The main thread once the instance is constructed and app.run serves
\* requests (app.py lines 17, 336-341).
Serving == [pc |-> "serving", r |-> 0]

\* app.py lines 20-35: status (current_drink 0 stands for None)
InitialStatus ==
    [pouring |-> FALSE, current_drink |-> 0,
     reservoir_levels |-> [r \in PUMP_PINS |-> Capacity],
     refilling |-> [r \in PUMP_PINS |-> FALSE]]

\* test_state, app.py lines 38-43: nothing active, no timer (0 stands for
\* None; a timer is referred to by its thread's number)
InitialTestState == [valve_active |-> FALSE, pump_active |-> FALSE,
                     valve_timer |-> 0, pump_timer |-> 0]

\* The auto-stop timer threads of the test routes; none runs at the start.
Timers == 1..MaxTimers
IdleTimer == [pc |-> "idle", dev |-> "none"]
NoTimers ==
    /\ test_state = InitialTestState
    /\ timers = [k \in Timers |-> IdleTimer]

\* Constructed: the main thread serving, the device handles open.
Constructed ==
    /\ main = Serving
    /\ closed = FALSE
    /\ status = InitialStatus
    /\ NoTimers

\* BartenderHardware.__init__: every reservoir full, nothing refilling, every
\* lock free, every relay off (initial_value=False), monitor started.
Init ==
    /\ simulation_mode \in BOOLEAN
    /\ running = TRUE
    /\ reservoir_levels = [r \in PUMP_PINS |-> Capacity]
    /\ refilling = [r \in PUMP_PINS |-> FALSE]
    /\ refill_locks = [r \in PUMP_PINS |-> FALSE]
    /\ pumps = [r \in PUMP_PINS |-> FALSE]
    /\ valves = [r \in VALVE_PINS |-> FALSE]
    /\ monitor = [pc |-> "m_read", r |-> 1]
    /\ task = [t \in Tasks |-> IdleTask]
    /\ used = NothingUsed
    /\ Constructed
    /\ io_faults = 0

\* A new thread takes the lowest free slot of the pool.
FreeSlot(t) ==
    /\ task[t].pc = "idle"
    /\ \A u \in Tasks : u < t => task[u].pc # "idle"

\* ------------------------------------------------------------ device layer
\* OutputDevice.on()/off() behind activate_pump, deactivate_pump, open_valve,
\* close_valve: nothing to write in simulation mode; in live mode the write
\* either takes effect or raises, and the exception is logged and absorbed.
\* The outcomes of one write: the relays afterwards, and whether it raised.
\* On a device that cleanup has closed the write raises, always.
RelayWrite(relays, n, value) ==
    IF simulation_mode \/ closed
    THEN {[relays |-> relays, failed |-> FALSE]}
    ELSE {[relays |-> [relays EXCEPT ![n] = value], failed |-> FALSE]}
         \cup (IF io_faults < MaxIoFaults
                THEN {[relays |-> relays, failed |-> TRUE]}
                ELSE {})

Count(failed) == io_faults + (IF failed THEN 1 ELSE 0)

activate_pump(pump_num) ==
    \E w \in RelayWrite(pumps, pump_num, TRUE) :
        pumps' = w.relays /\ io_faults' = Count(w.failed)

deactivate_pump(pump_num) ==
    \E w \in RelayWrite(pumps, pump_num, FALSE) :
        pumps' = w.relays /\ io_faults' = Count(w.failed)

open_valve(valve_num) ==
    \E w \in RelayWrite(valves, valve_num, TRUE) :
        valves' = w.relays /\ io_faults' = Count(w.failed)

close_valve(valve_num) ==
    \E w \in RelayWrite(valves, valve_num, FALSE) :
        valves' = w.relays /\ io_faults' = Count(w.failed)

\* Faulty variant of the simulated float switch: a level equal to the
\* threshold reads OK.
read_float_switch_inclusive(sensor_num) ==
    IF simulation_mode
    THEN {[ok |-> reservoir_levels[sensor_num] >= Threshold, failed |-> FALSE]}
    ELSE {[ok |-> TRUE, failed |-> FALSE]}
         \cup (IF sensor_num \in Drawn /\ ~closed
                THEN {[ok |-> FALSE, failed |-> FALSE]}
                ELSE {})
         \cup (IF io_faults < MaxIoFaults /\ ~closed
                THEN {[ok |-> TRUE, failed |-> TRUE]}
                ELSE {})

\* Faulty variant of the live float switch: a read that raises is reported
\* as a low level.
read_float_switch_fail_low(sensor_num) ==
    IF simulation_mode
    THEN {[ok |-> reservoir_levels[sensor_num] > Threshold, failed |-> FALSE]}
    ELSE IF closed
    THEN {[ok |-> TRUE, failed |-> FALSE]}
    ELSE {[ok |-> TRUE, failed |-> FALSE]}
         \cup (IF sensor_num \in Drawn
                THEN {[ok |-> FALSE, failed |-> FALSE]}
                ELSE {})
         \cup (IF io_faults < MaxIoFaults
                THEN {[ok |-> FALSE, failed |-> TRUE]}
                ELSE {})

\* read_float_switch: the outcomes of one read, the value returned and
\* whether the device raised.  Simulation: level > REFILL_THRESHOLD_ML.
\* Live: the input line is high or low, and a read that raises returns True.
read_float_switch(sensor_num) ==
    IF simulation_mode
    THEN {[ok |-> reservoir_levels[sensor_num] > Threshold, failed |-> FALSE]}
    ELSE IF closed    \* the read of a closed device raises: True (line 192)
    THEN {[ok |-> TRUE, failed |-> FALSE]}
    ELSE {[ok |-> TRUE, failed |-> FALSE]}
         \cup (IF sensor_num \in Drawn
                THEN {[ok |-> FALSE, failed |-> FALSE]}
                ELSE {})
         \cup (IF io_faults < MaxIoFaults
                THEN {[ok |-> TRUE, failed |-> TRUE]}
                ELSE {})

SetTask(t, rec) == task' = [task EXCEPT ![t] = rec]

\* ------------------------------------------------------------------- pour
\* Faulty variant of the pour time: the safety limit is not applied.
pour_time_unlimited(valve_num, ml) == (ml * Millis) \div ML_PER_SECOND

\* lines 209-215: pour_time = ml / flow_rate, limited to MAX_POUR_TIME; in
\* milliseconds, for ml in whole millilitres
pour_time(valve_num, ml) ==
    LET t == (ml * Millis) \div ML_PER_SECOND
    IN  IF t > MAX_POUR_TIME * Millis THEN MAX_POUR_TIME * Millis ELSE t

\* the volume of a returned pour added to the total of its reservoir
Poured(valve_num, ml) == [used EXCEPT !.poured[valve_num] = @ + ml]

\* the record of a pour that has left, by return or by an exception.  pour
\* has no return statement with a value (lines 203, 229): ret stays empty.
\* A pour called by a drink thread goes back into it: on to the wait between
\* ingredients (app.py line 120), or to the handler of line 124.
PourDone(rec, out) ==
    IF rec.drink = 0
    THEN [Done("pour", rec.r, rec.ml, out) EXCEPT !.at_call = rec.at_call]
    ELSE [IdleTask EXCEPT !.pc = IF out = "return" THEN "d_wait" ELSE "d_finally",
                          !.op = "pour_drink", !.drink = rec.drink,
                          !.step = rec.step]

\* Faulty variant of pour: the first test is `ml < 0`, so a pour of 0 ml goes
\* on to open and close the valve.
PourCallZeroActuates(t, valve_num, ml) ==
    /\ FreeSlot(t)
    /\ IF ml < 0
       THEN /\ SetTask(t, Done("pour", valve_num, ml * Scale, "return"))
            /\ UNCHANGED <<sysvars, valves, used, io_faults>>
       ELSE IF valve_num \notin VALVE_PINS
       THEN /\ SetTask(t, Done("pour", valve_num, ml * Scale, "ValueError"))
            /\ UNCHANGED <<sysvars, valves, used, io_faults>>
       ELSE /\ used.pours < MaxPours
            /\ used' = [used EXCEPT !.pours = @ + 1]
            /\ open_valve(valve_num)
            /\ SetTask(t, [IdleTask EXCEPT !.pc = "p_sleep", !.op = "pour",
                                           !.r = valve_num, !.ml = ml * Scale,
                                           !.wait = pour_time(valve_num, ml),
                                           !.at_call = reservoir_levels[valve_num]])
    /\ UNCHANGED <<sysvars, simulation_mode, running, reservoir_levels, refilling,
                   refill_locks, pumps, monitor>>

\* pour(valve_num, ml), lines 202-220: the call up to and including
\* open_valve.  ml <= 0 returns first; only then is valve_num validated.
PourCall(t, valve_num, ml) ==
    /\ FreeSlot(t)
    /\ IF ml <= 0
       THEN /\ SetTask(t, Done("pour", valve_num, ml * Scale, "return"))
            /\ UNCHANGED <<sysvars, valves, used, io_faults>>
       ELSE IF valve_num \notin VALVE_PINS
       THEN /\ SetTask(t, Done("pour", valve_num, ml * Scale, "ValueError"))
            /\ UNCHANGED <<sysvars, valves, used, io_faults>>
       ELSE /\ used.pours < MaxPours
            /\ used' = [used EXCEPT !.pours = @ + 1]
            /\ open_valve(valve_num)
            /\ SetTask(t, [IdleTask EXCEPT !.pc = "p_sleep", !.op = "pour",
                                           !.r = valve_num, !.ml = ml * Scale,
                                           !.wait = pour_time(valve_num, ml),
                                           !.at_call = reservoir_levels[valve_num]])
    /\ UNCHANGED <<sysvars, simulation_mode, running, reservoir_levels, refilling,
                   refill_locks, pumps, monitor>>

\* lines 221-222: time.sleep(pour_time) returns, close_valve
PourClose(t) ==
    /\ task[t].pc = "p_sleep"
    /\ close_valve(task[t].r)
    /\ SetTask(t, [task[t] EXCEPT !.pc = "p_read", !.wait = 0])
    /\ UNCHANGED <<sysvars, simulation_mode, running, reservoir_levels, refilling,
                   refill_locks, pumps, monitor, used>>

\* line 221: an exception raised in the timed wait leaves pour at once; there
\* is no try/finally around the wait, so close_valve is not reached.
PourFault(t) ==
    /\ task[t].pc = "p_sleep"
    /\ used.faults < MaxFaults
    /\ used' = [used EXCEPT !.faults = @ + 1]
    /\ SetTask(t, PourDone(task[t], "fault"))
    /\ UNCHANGED <<sysvars, hwvars, monitor, io_faults>>

\* line 225, first half of `reservoir_levels[valve_num] -= ml`: the load
PourRead(t) ==
    /\ task[t].pc = "p_read"
    /\ SetTask(t, [task[t] EXCEPT !.pc = "p_write",
                                  !.tmp = reservoir_levels[task[t].r]])
    /\ UNCHANGED <<sysvars, hwvars, monitor, used, io_faults>>

\* Faulty variant of the store: one level shared by all reservoirs (the
\* difference is stored under key 1 whatever the valve).
PourWriteShared(t) ==
    /\ task[t].pc = "p_write"
    /\ reservoir_levels' =
          [reservoir_levels EXCEPT ![1] = task[t].tmp - task[t].ml]
    /\ SetTask(t, [task[t] EXCEPT !.pc = "p_check", !.tmp = 0])
    /\ UNCHANGED <<sysvars, simulation_mode, running, refilling, refill_locks, pumps,
                   valves, monitor, used, io_faults>>

\* Faulty variant of the store: the level is lowered by what the valve can
\* dispense in the time it was open, not by the volume asked for.
PourWriteDispensed(t) ==
    /\ task[t].pc = "p_write"
    /\ reservoir_levels' =
          [reservoir_levels EXCEPT ![task[t].r] =
              task[t].tmp - Min(task[t].ml, MAX_POUR_TIME * ML_PER_SECOND * Scale)]
    /\ SetTask(t, [task[t] EXCEPT !.pc = "p_check", !.tmp = 0])
    /\ UNCHANGED <<sysvars, simulation_mode, running, refilling, refill_locks, pumps,
                   valves, monitor, used, io_faults>>

\* line 225, second half: the store of the difference
PourWrite(t) ==
    /\ task[t].pc = "p_write"
    /\ reservoir_levels' =
          [reservoir_levels EXCEPT ![task[t].r] = task[t].tmp - task[t].ml]
    /\ SetTask(t, [task[t] EXCEPT !.pc = "p_check", !.tmp = 0])
    /\ UNCHANGED <<sysvars, simulation_mode, running, refilling, refill_locks, pumps,
                   valves, monitor, used, io_faults>>

\* Faulty variant of pour: the level is not tested after the subtraction, so
\* a negative level stays.
PourCheckOmitted(t) ==
    /\ task[t].pc = "p_check"
    /\ SetTask(t, PourDone(task[t], "return"))
    /\ used' = Poured(task[t].r, task[t].ml)
    /\ UNCHANGED <<sysvars, hwvars, monitor, io_faults>>

\* line 226: `if self.reservoir_levels[valve_num] < 0`
PourCheck(t) ==
    /\ task[t].pc = "p_check"
    /\ IF reservoir_levels[task[t].r] < 0
       THEN /\ SetTask(t, [task[t] EXCEPT !.pc = "p_clamp"])
            /\ UNCHANGED used
       ELSE /\ SetTask(t, PourDone(task[t], "return"))
            /\ used' = Poured(task[t].r, task[t].ml)
    /\ UNCHANGED <<sysvars, hwvars, monitor, io_faults>>

\* line 227: `self.reservoir_levels[valve_num] = 0`, then return
PourClamp(t) ==
    /\ task[t].pc = "p_clamp"
    /\ reservoir_levels' = [reservoir_levels EXCEPT ![task[t].r] = 0]
    /\ SetTask(t, PourDone(task[t], "return"))
    /\ used' = Poured(task[t].r, task[t].ml)
    /\ UNCHANGED <<sysvars, simulation_mode, running, refilling, refill_locks, pumps,
                   valves, monitor, io_faults>>

\* ----------------------------------------------------------------- refill
\* Faulty variant of the acquire: it succeeds whether or not the lock is held.
AcquireIgnoringHolder(reservoir_num) == TRUE

\* Faulty variant of the acquire: one lock for all reservoirs (lines 62-66
\* create one Lock per reservoir).
AcquireSharedLock(reservoir_num) == \A r \in PUMP_PINS : ~refill_locks[r]

\* line 243: Lock.acquire(blocking=False) succeeds exactly when the lock is
\* free; it never waits.
AcquireNonBlocking(reservoir_num) == ~refill_locks[reservoir_num]

\* lines 252-254 and 264-267: `elapsed > timeout`, with elapsed in ticks and
\* ml_needed in 1/Scale ml.  timeout = min(expected_time * 1.5,
\* REFILL_TIMEOUT) where expected_time = (ml_needed / PUMP_FLOW_RATE) * 60.
TimedOut(elapsed, ml_needed) ==
    \/ elapsed * Scale * PUMP_FLOW_RATE * 2 > ml_needed * 60 * 3 * TicksPerSecond
    \/ elapsed > REFILL_TIMEOUT * TicksPerSecond

\* lines 263-278, the top of the polling loop after `polls` completed sleeps:
\* the pcs the loop can continue at.  time.time() - start_time is at least
\* the time slept and has no upper bound; the model follows a refill for at
\* most MaxPolls sleeps, after which the clock reads late.
LoopTop(polls, ml_needed) ==
    LET go == IF simulation_mode /\ ml_needed > 0 THEN "r_fill_read" ELSE "r_float"
        nominal == IF TimedOut(polls, ml_needed) THEN "r_stop" ELSE go
    IN  IF polls >= MaxPolls THEN {"r_stop"} ELSE {nominal, "r_stop"}

\* The thread record at the next position of the loop, after `polls` sleeps;
\* ml_needed and the sleep count are dead once the loop is left.  The loop
\* top leaves the loop by the timeout branch (lines 265-267).
Goto(rec, next, polls) ==
    IF next = "r_stop"
    THEN [rec EXCEPT !.pc = next, !.needed = 0, !.polls = 0, !.out = "timeout"]
    ELSE [rec EXCEPT !.pc = next, !.polls = polls]

\* Faulty variant of the entry of refill_reservoir: the failed acquire sits
\* inside the try block, so the busy return runs the finally block, which
\* clears the flag and releases the lock of the refill in flight.
RefillBeginBusyCleansUp(t, reservoir_num) ==
    /\ IF reservoir_num \notin PUMP_PINS
       THEN /\ SetTask(t, Done("refill", reservoir_num, 0, "ValueError"))
            /\ UNCHANGED <<sysvars, refill_locks, refilling>>
       ELSE IF refill_locks[reservoir_num]
       THEN /\ SetTask(t, Done("refill", reservoir_num, 0, "busy"))
            /\ refilling' = [refilling EXCEPT ![reservoir_num] = FALSE]
            /\ refill_locks' = [refill_locks EXCEPT ![reservoir_num] = FALSE]
       ELSE /\ refill_locks' = [refill_locks EXCEPT ![reservoir_num] = TRUE]
            /\ SetTask(t, [IdleTask EXCEPT !.pc = "r_flag", !.op = "refill",
                                           !.r = reservoir_num])
            /\ UNCHANGED refilling
    /\ UNCHANGED <<sysvars, simulation_mode, running, reservoir_levels, pumps, valves,
                   monitor, used, io_faults>>

\* lines 239-245: validation and the non-blocking acquire of refill_reservoir
RefillBegin(t, reservoir_num) ==
    /\ IF reservoir_num \notin PUMP_PINS
       THEN /\ SetTask(t, Done("refill", reservoir_num, 0, "ValueError"))
            /\ UNCHANGED refill_locks
       ELSE IF ~AcquireNonBlocking(reservoir_num)
       THEN /\ SetTask(t, Done("refill", reservoir_num, 0, "busy"))
            /\ UNCHANGED refill_locks
       ELSE /\ refill_locks' = [refill_locks EXCEPT ![reservoir_num] = TRUE]
            /\ SetTask(t, [IdleTask EXCEPT !.pc = "r_flag", !.op = "refill",
                                           !.r = reservoir_num])
    /\ UNCHANGED <<sysvars, simulation_mode, running, reservoir_levels, refilling,
                   pumps, valves, monitor, used, io_faults>>

\* refill_reservoir called directly (the manual refill request, the tests)
RefillCall(t, reservoir_num) ==
    /\ FreeSlot(t)
    /\ RefillBegin(t, reservoir_num)

\* the thread the monitor started begins to run refill_reservoir
RefillStart(t) ==
    /\ task[t].pc = "r_call"
    /\ RefillBegin(t, task[t].r)

\* line 248: self.refilling[reservoir_num] = True
RefillSetFlag(t) ==
    /\ task[t].pc = "r_flag"
    /\ refilling' = [refilling EXCEPT ![task[t].r] = TRUE]
    /\ SetTask(t, [task[t] EXCEPT !.pc = "r_needed"])
    /\ UNCHANGED <<sysvars, simulation_mode, running, reservoir_levels, refill_locks,
                   pumps, valves, monitor, used, io_faults>>

\* line 252: ml_needed = RESERVOIR_CAPACITY_ML - reservoir_levels[r]
RefillNeeded(t) ==
    /\ task[t].pc = "r_needed"
    /\ SetTask(t, [task[t] EXCEPT !.pc = "r_pump",
                       !.needed = Capacity - reservoir_levels[task[t].r],
                       !.at_call = reservoir_levels[task[t].r]])
    /\ UNCHANGED <<sysvars, hwvars, monitor, used, io_faults>>

\* lines 259-267: activate_pump, start_time, first pass of the loop top
RefillPump(t) ==
    /\ task[t].pc = "r_pump"
    /\ activate_pump(task[t].r)
    /\ \E next \in LoopTop(0, task[t].needed) :
          SetTask(t, Goto(task[t], next, 0))
    /\ UNCHANGED <<sysvars, simulation_mode, running, reservoir_levels, refilling,
                   refill_locks, valves, monitor, used>>

\* lines 275-278, the load of reservoir_levels[r] in the simulated fill
RefillFillRead(t) ==
    /\ task[t].pc = "r_fill_read"
    /\ SetTask(t, [task[t] EXCEPT !.pc = "r_fill_write",
                                  !.tmp = reservoir_levels[task[t].r]])
    /\ UNCHANGED <<sysvars, hwvars, monitor, used, io_faults>>

\* lines 275-278, the store of min(level + fill_rate_per_check, capacity)
RefillFillWrite(t) ==
    /\ task[t].pc = "r_fill_write"
    /\ reservoir_levels' = [reservoir_levels EXCEPT
          ![task[t].r] = Min(task[t].tmp + FillPerCheck, Capacity)]
    /\ SetTask(t, [task[t] EXCEPT !.pc = "r_float", !.tmp = 0])
    /\ UNCHANGED <<sysvars, simulation_mode, running, refilling, refill_locks, pumps,
                   valves, monitor, used, io_faults>>

\* lines 281-285 and 264-267: read the float switch; full leaves the loop,
\* otherwise sleep 0.5 s and take the loop top again
RefillFloat(t) ==
    /\ task[t].pc = "r_float"
    /\ \E level_ok \in read_float_switch(task[t].r) :
          /\ io_faults' = Count(level_ok.failed)
          /\ IF level_ok.ok
             THEN SetTask(t, [Goto(task[t], "r_stop", 0) EXCEPT !.out = "full"])
             ELSE \E next \in LoopTop(task[t].polls + 1, task[t].needed) :
                     SetTask(t, Goto(task[t], next, task[t].polls + 1))
    /\ UNCHANGED <<sysvars, hwvars, monitor, used>>

\* Faulty variant of the fault path: no finally block, so the exception leaves
\* refill_reservoir with the flag set and the lock held.
RefillFaultEscapes(t) ==
    /\ task[t].pc \in {"r_fill_read", "r_fill_write", "r_float"}
    /\ used.faults < MaxFaults
    /\ used' = [used EXCEPT !.faults = @ + 1]
    /\ SetTask(t, Done("refill", task[t].r, 0, "fault"))
    /\ UNCHANGED <<sysvars, hwvars, monitor, io_faults>>

\* lines 263-285 and 295-296: an exception raised inside the polling loop is
\* caught by `except Exception`; control goes to the finally block, past
\* deactivate_pump and the level reset.
RefillFault(t) ==
    /\ task[t].pc \in {"r_fill_read", "r_fill_write", "r_float"}
    /\ used.faults < MaxFaults
    /\ used' = [used EXCEPT !.faults = @ + 1]
    /\ SetTask(t, [task[t] EXCEPT !.pc = "r_clear", !.out = "fault", !.tmp = 0,
                                  !.needed = 0, !.polls = 0])
    /\ UNCHANGED <<sysvars, hwvars, monitor, io_faults>>

\* line 288: deactivate_pump
RefillStop(t) ==
    /\ task[t].pc = "r_stop"
    /\ deactivate_pump(task[t].r)
    /\ SetTask(t, [task[t] EXCEPT !.pc = "r_reset"])
    /\ UNCHANGED <<sysvars, simulation_mode, running, reservoir_levels, refilling,
                   refill_locks, valves, monitor, used>>

\* Faulty variant of the end of the refill: the level is left as the loop
\* left it.
RefillResetOmitted(t) ==
    /\ task[t].pc = "r_reset"
    /\ SetTask(t, [task[t] EXCEPT !.pc = "r_clear"])
    /\ UNCHANGED <<sysvars, hwvars, monitor, used, io_faults>>

\* line 291: reservoir_levels[r] = RESERVOIR_CAPACITY_ML
RefillReset(t) ==
    /\ task[t].pc = "r_reset"
    /\ reservoir_levels' = [reservoir_levels EXCEPT ![task[t].r] = Capacity]
    /\ SetTask(t, [task[t] EXCEPT !.pc = "r_clear"])
    /\ UNCHANGED <<sysvars, simulation_mode, running, refilling, refill_locks, pumps,
                   valves, monitor, used, io_faults>>

\* Faulty variant of the finally block: the flag is not cleared before the
\* lock is released.
RefillClearOmitted(t) ==
    /\ task[t].pc = "r_clear"
    /\ SetTask(t, [task[t] EXCEPT !.pc = "r_release"])
    /\ UNCHANGED <<sysvars, hwvars, monitor, used, io_faults>>

\* line 298: self.refilling[reservoir_num] = False
RefillClear(t) ==
    /\ task[t].pc = "r_clear"
    /\ refilling' = [refilling EXCEPT ![task[t].r] = FALSE]
    /\ SetTask(t, [task[t] EXCEPT !.pc = "r_release"])
    /\ UNCHANGED <<sysvars, simulation_mode, running, reservoir_levels, refill_locks,
                   pumps, valves, monitor, used, io_faults>>

\* line 299: self.refill_locks[reservoir_num].release(), then return
RefillRelease(t) ==
    /\ task[t].pc = "r_release"
    /\ refill_locks' = [refill_locks EXCEPT ![task[t].r] = FALSE]
    /\ SetTask(t, [Done("refill", task[t].r, 0,
                        IF task[t].out = "fault" THEN "fault" ELSE "return")
                      EXCEPT !.at_call = task[t].at_call])
    /\ UNCHANGED <<sysvars, simulation_mode, running, reservoir_levels, refilling,
                   pumps, valves, monitor, used, io_faults>>

\* the finished thread is gone (joined, or its result taken by the caller)
Reap(t) ==
    /\ task[t].pc = "done"
    /\ SetTask(t, IdleTask)
    /\ UNCHANGED <<sysvars, hwvars, monitor, used, io_faults>>

\* ---------------------------------------------------------- level monitor
\* line 307: `for reservoir_num in range(1, 5)`, then line 322 time.sleep(2)
MonitorAdvance(reservoir_num) ==
    IF reservoir_num < 4
    THEN [pc |-> "m_read", r |-> reservoir_num + 1]
    ELSE [pc |-> "m_sleep", r |-> 0]

\* Faulty variant of the monitor: the test of line 312 is inverted, so a
\* reservoir that reads OK is taken for a low one.
MonitorReadInverted ==
    /\ monitor.pc = "m_read"
    /\ \E level_ok \in read_float_switch(monitor.r) :
          /\ io_faults' = Count(level_ok.failed)
          /\ monitor' = IF ~level_ok.ok
                        THEN MonitorAdvance(monitor.r)
                        ELSE [monitor EXCEPT !.pc = "m_check"]
    /\ UNCHANGED <<sysvars, hwvars, task, used>>

\* line 309: level_ok = self.read_float_switch(reservoir_num)
MonitorRead ==
    /\ monitor.pc = "m_read"
    /\ \E level_ok \in read_float_switch(monitor.r) :
          /\ io_faults' = Count(level_ok.failed)
          /\ monitor' = IF level_ok.ok
                        THEN MonitorAdvance(monitor.r)
                        ELSE [monitor EXCEPT !.pc = "m_check"]
    /\ UNCHANGED <<sysvars, hwvars, task, used>>

\* Faulty variant of the monitor: the refilling flag is not consulted.
MonitorLaunchesAlways(reservoir_num) == TRUE

\* line 312 with level_ok false: `not self.refilling[reservoir_num]`
MonitorLaunches(reservoir_num) == ~refilling[reservoir_num]

\* Faulty variant of the monitor: a reservoir read low is logged but no
\* refill thread is started for it.
MonitorCheckNeverLaunches ==
    /\ monitor.pc = "m_check"
    /\ monitor' = MonitorAdvance(monitor.r)
    /\ UNCHANGED <<sysvars, hwvars, task, used, io_faults>>

\* Faulty variant of the monitor: refill_reservoir is called in the monitor's
\* own thread, so the check goes ahead only when no refill is running.
MonitorCheckSynchronous ==
    /\ monitor.pc = "m_check"
    /\ \A u \in Tasks : task[u].pc \in {"idle", "done"}
    /\ IF ~refilling[monitor.r]
       THEN \E t \in Tasks :
               /\ FreeSlot(t)
               /\ SetTask(t, [IdleTask EXCEPT !.pc = "r_call", !.op = "refill",
                                              !.r = monitor.r])
       ELSE UNCHANGED task
    /\ monitor' = MonitorAdvance(monitor.r)
    /\ UNCHANGED <<sysvars, hwvars, used, io_faults>>

\* lines 312-320: the refilling flag is read; if clear, a daemon thread
\* running refill_reservoir(reservoir_num) is started and not waited for.
MonitorCheck ==
    /\ monitor.pc = "m_check"
    /\ IF MonitorLaunches(monitor.r)
       THEN \E t \in Tasks :
               /\ FreeSlot(t)
               /\ SetTask(t, [IdleTask EXCEPT !.pc = "r_call", !.op = "refill",
                                              !.r = monitor.r])
       ELSE UNCHANGED task
    /\ monitor' = MonitorAdvance(monitor.r)
    /\ UNCHANGED <<sysvars, hwvars, used, io_faults>>

\* Faulty variant of the monitor: the loop is `while True`.
MonitorWakeIgnoresFlag ==
    /\ monitor.pc \in {"m_sleep", "m_backoff"}
    /\ monitor' = [pc |-> "m_read", r |-> 1]
    /\ UNCHANGED <<sysvars, hwvars, task, used, io_faults>>

\* lines 305, 322, 326: the sleep ends and `while self.running` is tested
MonitorWake ==
    /\ monitor.pc \in {"m_sleep", "m_backoff"}
    /\ monitor' = IF running
                  THEN [pc |-> "m_read", r |-> 1]
                  ELSE [pc |-> "m_stopped", r |-> 0]
    /\ UNCHANGED <<sysvars, hwvars, task, used, io_faults>>

\* Faulty variant of the monitor: no try block inside the loop, so an
\* exception in an iteration ends the monitor thread.
MonitorFaultEndsLoop ==
    /\ monitor.pc \in {"m_read", "m_check"}
    /\ used.faults < MaxFaults
    /\ used' = [used EXCEPT !.faults = @ + 1]
    /\ monitor' = [pc |-> "m_stopped", r |-> 0]
    /\ UNCHANGED <<sysvars, hwvars, task, io_faults>>

\* lines 324-326: an exception inside the iteration is logged, the rest of
\* the iteration is skipped and the loop sleeps 5 s
MonitorFault ==
    /\ monitor.pc \in {"m_read", "m_check"}
    /\ used.faults < MaxFaults
    /\ used' = [used EXCEPT !.faults = @ + 1]
    /\ monitor' = [pc |-> "m_backoff", r |-> 0]
    /\ UNCHANGED <<sysvars, hwvars, task, io_faults>>

\* ------------------------------------------------------------ construction
\* The twelve devices _init_gpio creates: four pumps, four valves, four
\* float switches (config.py lines 7-26).
DeviceCount == 12

\* Faulty variant of the failure path of _init_gpio: the exception is logged
\* and the instance stays in live mode with the devices it has.
InitGpioFails(failed) ==
    /\ main' = [pc |-> "start_monitoring", r |-> 0]
    /\ UNCHANGED simulation_mode

\* lines 105-108: a device that cannot be created ends the try block, and
\* the instance falls back to simulation mode
InitGpioFallsBack(failed) ==
    /\ main' = [pc |-> "start_monitoring", r |-> 0]
    /\ simulation_mode' = (simulation_mode \/ failed)

\* _init_gpio, lines 82-108, one device at a time; in simulation mode it
\* returns at once (lines 84-86)
InitGpio ==
    /\ main.pc = "init_gpio"
    /\ \/ /\ simulation_mode \/ main.r = DeviceCount
          /\ main' = [pc |-> "start_monitoring", r |-> 0]
          /\ UNCHANGED <<simulation_mode, io_faults>>
       \/ /\ ~simulation_mode /\ main.r < DeviceCount
          /\ main' = [main EXCEPT !.r = @ + 1]
          /\ UNCHANGED <<simulation_mode, io_faults>>
       \/ /\ ~simulation_mode /\ main.r < DeviceCount
          /\ io_faults < MaxIoFaults
          /\ io_faults' = io_faults + 1
          /\ InitGpioFallsBack(TRUE)
    /\ UNCHANGED <<running, reservoir_levels, refilling, refill_locks, pumps,
                   valves, monitor, task, used, closed, status,
                   testvars>>

\* _start_monitoring, lines 330-335, and the return of the constructor
StartMonitoring ==
    /\ main.pc = "start_monitoring"
    /\ running' = TRUE
    /\ monitor' = [pc |-> "m_read", r |-> 1]
    /\ main' = Serving
    /\ UNCHANGED <<simulation_mode, reservoir_levels, refilling, refill_locks,
                   pumps, valves, task, used, io_faults, closed, status,
                   testvars>>

\* ----------------------------------------------------------- direct calls
\* The device methods called from outside pour and refill: the manual
\* override routes of app.py (lines 164-218), the test-mode routes and the
\* unit tests.  Each call is one step; the thread record keeps how the call
\* left: "return", or "ValueError" for a device number out of range.

\* Faulty variant of the validation: an unknown device number is ignored.
ValidDeviceOrNoOp(n, pins) == IF n \in pins THEN "ok" ELSE "return"

\* lines 113-114, 128-129, 142-143, 157-158, 178-179
ValidDevice(n, pins) == IF n \in pins THEN "ok" ELSE "ValueError"

\* activate_pump(pump_num), lines 111-124
ActivatePumpCall(t, pump_num) ==
    /\ FreeSlot(t)
    /\ IF ValidDevice(pump_num, PUMP_PINS) = "ok"
       THEN /\ activate_pump(pump_num)
            /\ SetTask(t, Done("activate_pump", pump_num, 0, "return"))
       ELSE /\ SetTask(t, Done("activate_pump", pump_num, 0,
                               ValidDevice(pump_num, PUMP_PINS)))
            /\ UNCHANGED <<pumps, io_faults>>
    /\ UNCHANGED <<sysvars, simulation_mode, running, reservoir_levels, refilling,
                   refill_locks, valves, monitor, used>>

\* deactivate_pump(pump_num), lines 126-138
DeactivatePumpCall(t, pump_num) ==
    /\ FreeSlot(t)
    /\ IF ValidDevice(pump_num, PUMP_PINS) = "ok"
       THEN /\ deactivate_pump(pump_num)
            /\ SetTask(t, Done("deactivate_pump", pump_num, 0, "return"))
       ELSE /\ SetTask(t, Done("deactivate_pump", pump_num, 0,
                               ValidDevice(pump_num, PUMP_PINS)))
            /\ UNCHANGED <<pumps, io_faults>>
    /\ UNCHANGED <<sysvars, simulation_mode, running, reservoir_levels, refilling,
                   refill_locks, valves, monitor, used>>

\* open_valve(valve_num), lines 140-153
OpenValveCall(t, valve_num) ==
    /\ FreeSlot(t)
    /\ IF ValidDevice(valve_num, VALVE_PINS) = "ok"
       THEN /\ open_valve(valve_num)
            /\ SetTask(t, Done("open_valve", valve_num, 0, "return"))
       ELSE /\ SetTask(t, Done("open_valve", valve_num, 0,
                               ValidDevice(valve_num, VALVE_PINS)))
            /\ UNCHANGED <<valves, io_faults>>
    /\ UNCHANGED <<sysvars, simulation_mode, running, reservoir_levels, refilling,
                   refill_locks, pumps, monitor, used>>

\* close_valve(valve_num), lines 155-169
CloseValveCall(t, valve_num) ==
    /\ FreeSlot(t)
    /\ IF ValidDevice(valve_num, VALVE_PINS) = "ok"
       THEN /\ close_valve(valve_num)
            /\ SetTask(t, Done("close_valve", valve_num, 0, "return"))
       ELSE /\ SetTask(t, Done("close_valve", valve_num, 0,
                               ValidDevice(valve_num, VALVE_PINS)))
            /\ UNCHANGED <<valves, io_faults>>
    /\ UNCHANGED <<sysvars, simulation_mode, running, reservoir_levels, refilling,
                   refill_locks, pumps, monitor, used>>

\* read_float_switch(sensor_num), lines 171-192: the value returned is kept
\* as "True" or "False"
ReadFloatCall(t, sensor_num) ==
    /\ FreeSlot(t)
    /\ IF ValidDevice(sensor_num, FLOAT_PINS) = "ok"
       THEN \E level_ok \in read_float_switch(sensor_num) :
               /\ io_faults' = Count(level_ok.failed)
               /\ SetTask(t, Done("read_float_switch", sensor_num, 0,
                                  IF level_ok.ok THEN "True" ELSE "False"))
       ELSE /\ SetTask(t, Done("read_float_switch", sensor_num, 0,
                               ValidDevice(sensor_num, FLOAT_PINS)))
            /\ UNCHANGED io_faults
    /\ UNCHANGED <<sysvars, hwvars, monitor, used>>

\* Faulty variant of the status query: it clears the refilling flags of the
\* hardware object while copying them.
GetStatusClearsFlags ==
    /\ status' = [status EXCEPT !.reservoir_levels = reservoir_levels,
                                !.refilling = refilling]
    /\ refilling' = [r \in PUMP_PINS |-> FALSE]
    /\ UNCHANGED <<simulation_mode, running, reservoir_levels, refill_locks,
                   pumps, valves, monitor, task, used, io_faults, main, closed,
                   testvars>>

\* get_status, app.py lines 65-78: the levels and the flags are copied into
\* the status dictionary
GetStatus ==
    /\ status' = [status EXCEPT !.reservoir_levels = reservoir_levels,
                                !.refilling = refilling]
    /\ UNCHANGED <<hwvars, monitor, task, used, io_faults, main, closed,
                   testvars>>

\* ------------------------------------------------------------ drink pours
\* The recipes of app.py (lines 45-52, loaded from recipes.json): for each
\* drink the ingredients in the order of the file, reservoir and millilitres.
\* Drink 3 is a name the recipes do not have; 0 stands for None.
Recipes ==
    [d \in {1, 2} |->
        IF d = 1 THEN <<[r |-> 1, ml |-> 300]>>
                 ELSE <<[r |-> 1, ml |-> 0], [r |-> 2, ml |-> 300]>>]
DrinkNames == DOMAIN Recipes \cup {3}

\* pour_drink, app.py lines 93-99: the reply of the handler
PourDrinkReply(drink_name) ==
    IF status.pouring THEN "400"
    ELSE IF drink_name \notin DOMAIN Recipes THEN "404"
    ELSE "200"

\* POST /api/pour/<drink_name>, app.py lines 87-135: the handler tests
\* status["pouring"], looks the drink up, starts pour_thread and replies.  It
\* stores nothing itself: the flag is set by the thread it started (line 109).
PourDrink(t, drink_name) ==
    /\ FreeSlot(t)
    /\ SetTask(t, IF PourDrinkReply(drink_name) = "200"
                  THEN [IdleTask EXCEPT !.pc = "d_start", !.op = "pour_drink",
                                        !.drink = drink_name]
                  ELSE [Done("pour_drink", 0, 0, PourDrinkReply(drink_name))
                           EXCEPT !.drink = drink_name])
    /\ UNCHANGED <<sysvars, hwvars, monitor, used, io_faults>>

\* pour_thread, line 109: status["pouring"] = True
DrinkBegin(t) ==
    /\ task[t].pc = "d_start"
    /\ status' = [status EXCEPT !.pouring = TRUE]
    /\ SetTask(t, [task[t] EXCEPT !.pc = "d_name"])
    /\ UNCHANGED <<main, closed, testvars, hwvars, monitor, used, io_faults>>

\* line 110: status["current_drink"] = drink_name
DrinkName(t) ==
    /\ task[t].pc = "d_name"
    /\ status' = [status EXCEPT !.current_drink = task[t].drink]
    /\ SetTask(t, [task[t] EXCEPT !.pc = "d_next", !.step = 1])
    /\ UNCHANGED <<main, closed, testvars, hwvars, monitor, used, io_faults>>

\* lines 114-118: the next ingredient of the recipe; one of 0 ml is skipped,
\* another is poured: hw.pour up to and including open_valve (hardware.py
\* lines 202-220), a ValueError going to the handler of line 124.
DrinkNext(t) ==
    LET recipe == Recipes[task[t].drink]
        ing == recipe[task[t].step]
    IN  /\ task[t].pc = "d_next"
        /\ IF task[t].step > Len(recipe)
           THEN /\ SetTask(t, [task[t] EXCEPT !.pc = "d_finally"])
                /\ UNCHANGED <<valves, used, io_faults>>
           ELSE IF ing.ml <= 0
           THEN /\ SetTask(t, [task[t] EXCEPT !.step = @ + 1])
                /\ UNCHANGED <<valves, used, io_faults>>
           ELSE IF ing.r \notin VALVE_PINS
           THEN /\ SetTask(t, [task[t] EXCEPT !.pc = "d_finally"])
                /\ UNCHANGED <<valves, used, io_faults>>
           ELSE /\ used.pours < MaxPours
                /\ used' = [used EXCEPT !.pours = @ + 1]
                /\ open_valve(ing.r)
                /\ SetTask(t, [task[t] EXCEPT
                                  !.pc = "p_sleep", !.op = "pour",
                                  !.r = ing.r, !.ml = ing.ml * Scale,
                                  !.wait = pour_time(ing.r, ing.ml),
                                  !.at_call = reservoir_levels[ing.r]])
        /\ UNCHANGED <<sysvars, simulation_mode, running, reservoir_levels,
                       refilling, refill_locks, pumps, monitor>>

\* line 120: threading.Event().wait(0.5) returns
DrinkWait(t) ==
    /\ task[t].pc = "d_wait"
    /\ SetTask(t, [task[t] EXCEPT !.pc = "d_next", !.step = @ + 1])
    /\ UNCHANGED <<sysvars, hwvars, monitor, used, io_faults>>

\* line 128, in the finally block: status["pouring"] = False
DrinkFinally(t) ==
    /\ task[t].pc = "d_finally"
    /\ status' = [status EXCEPT !.pouring = FALSE]
    /\ SetTask(t, [task[t] EXCEPT !.pc = "d_clear"])
    /\ UNCHANGED <<main, closed, testvars, hwvars, monitor, used, io_faults>>

\* line 129: status["current_drink"] = None, and the thread ends
DrinkClear(t) ==
    /\ task[t].pc = "d_clear"
    /\ status' = [status EXCEPT !.current_drink = 0]
    /\ SetTask(t, [Done("pour_drink", 0, 0, "return")
                      EXCEPT !.drink = task[t].drink])
    /\ UNCHANGED <<main, closed, testvars, hwvars, monitor, used, io_faults>>

\* -------------------------------------------------------------- test mode
\* The test routes of app.py (lines 235-306) drive valve 1 and pump 1.  The
\* two pairs of routes are the same code but for the device and the keys of
\* test_state, so each step is written once, for dev in Devs.
Devs == {"valve", "pump"}
StartOp(dev) == IF dev = "valve" THEN "test_valve_start" ELSE "test_pump_start"
StopOp(dev) == IF dev = "valve" THEN "test_valve_stop" ELSE "test_pump_stop"
TaskDev(t) ==
    IF task[t].op \in {"test_valve_start", "test_valve_stop"} THEN "valve" ELSE "pump"

\* test_state["valve_active"] / test_state["pump_active"]
Active(dev) ==
    IF dev = "valve" THEN test_state.valve_active ELSE test_state.pump_active
SetActive(dev, value) ==
    test_state' = IF dev = "valve" THEN [test_state EXCEPT !.valve_active = value]
                                   ELSE [test_state EXCEPT !.pump_active = value]
\* test_state["valve_timer"] / test_state["pump_timer"]
SetTimer(dev, value) ==
    test_state' = IF dev = "valve" THEN [test_state EXCEPT !.valve_timer = value]
                                   ELSE [test_state EXCEPT !.pump_timer = value]

\* hw.open_valve(1) / hw.activate_pump(1)
DeviceOn(dev) ==
    IF dev = "valve" THEN open_valve(1) /\ UNCHANGED pumps
                     ELSE activate_pump(1) /\ UNCHANGED valves
\* hw.close_valve(1) / hw.deactivate_pump(1)
DeviceOff(dev) ==
    IF dev = "valve" THEN close_valve(1) /\ UNCHANGED pumps
                     ELSE deactivate_pump(1) /\ UNCHANGED valves

\* The relay of the test valve / the test pump is energized
Energized(dev) == IF dev = "valve" THEN valves[1] ELSE pumps[1]

\* test_valve_start / test_pump_start, lines 246-247 and 286-287: the
\* reference to an earlier timer is dropped; its thread goes on running
TestStartCall(t, dev) ==
    /\ FreeSlot(t)
    /\ SetTimer(dev, 0)
    /\ SetTask(t, [IdleTask EXCEPT !.pc = "ts_open", !.op = StartOp(dev), !.r = 1])
    /\ UNCHANGED <<main, closed, status, timers, hwvars, monitor, used, io_faults>>

\* lines 250, 290: hw.open_valve(1) / hw.activate_pump(1)
TestStartOpen(t) ==
    /\ task[t].pc = "ts_open"
    /\ DeviceOn(TaskDev(t))
    /\ SetTask(t, [task[t] EXCEPT !.pc = "ts_active"])
    /\ UNCHANGED <<sysvars, simulation_mode, running, reservoir_levels, refilling,
                   refill_locks, monitor, used>>

\* lines 251, 291: test_state["valve_active"] = True
TestStartActive(t) ==
    /\ task[t].pc = "ts_active"
    /\ SetActive(TaskDev(t), TRUE)
    /\ SetTask(t, [task[t] EXCEPT !.pc = "ts_timer"])
    /\ UNCHANGED <<main, closed, status, timers, hwvars, monitor, used, io_faults>>

\* lines 254-255, 294-295: the timer thread is created and started
TestStartTimer(t) ==
    /\ task[t].pc = "ts_timer"
    /\ \E k \in Timers :
          /\ timers[k].pc = "idle"
          /\ \A j \in Timers : j < k => timers[j].pc # "idle"
          /\ timers' = [timers EXCEPT ![k] = [pc |-> "sleep", dev |-> TaskDev(t)]]
          /\ SetTask(t, [task[t] EXCEPT !.pc = "ts_store", !.tmp = k])
    /\ UNCHANGED <<main, closed, status, test_state, hwvars, monitor, used, io_faults>>

\* lines 256-259, 296-299: test_state["valve_timer"] = timer, reply 200
TestStartStore(t) ==
    /\ task[t].pc = "ts_store"
    /\ SetTimer(TaskDev(t), task[t].tmp)
    /\ SetTask(t, Done(task[t].op, 1, 0, "200"))
    /\ UNCHANGED <<main, closed, status, timers, hwvars, monitor, used, io_faults>>

\* test_valve_stop / test_pump_stop, lines 265, 305: hw.close_valve(1) /
\* hw.deactivate_pump(1)
TestStopCall(t, dev) ==
    /\ FreeSlot(t)
    /\ DeviceOff(dev)
    /\ SetTask(t, [IdleTask EXCEPT !.pc = "tp_active", !.op = StopOp(dev), !.r = 1])
    /\ UNCHANGED <<sysvars, simulation_mode, running, reservoir_levels, refilling,
                   refill_locks, monitor, used>>

\* lines 266, 306: test_state["valve_active"] = False
TestStopActive(t) ==
    /\ task[t].pc = "tp_active"
    /\ SetActive(TaskDev(t), FALSE)
    /\ SetTask(t, [task[t] EXCEPT !.pc = "tp_timer"])
    /\ UNCHANGED <<main, closed, status, timers, hwvars, monitor, used, io_faults>>

\* lines 267-270, 307-310: test_state["valve_timer"] = None, reply 200
TestStopTimer(t) ==
    /\ task[t].pc = "tp_timer"
    /\ SetTimer(TaskDev(t), 0)
    /\ SetTask(t, Done(task[t].op, 1, 0, "200"))
    /\ UNCHANGED <<main, closed, status, timers, hwvars, monitor, used, io_faults>>

\* valve_auto_stop / pump_auto_stop, lines 240-241, 280-281: the 60 s sleep
\* ends and the active flag is tested; with the flag clear the thread ends
TimerFire(k) ==
    /\ timers[k].pc = "sleep"
    /\ timers' = [timers EXCEPT ![k] = IF Active(timers[k].dev)
                                       THEN [timers[k] EXCEPT !.pc = "close"]
                                       ELSE IdleTimer]
    /\ UNCHANGED <<main, closed, status, test_state, hwvars, monitor, task, used,
                   io_faults>>

\* lines 242, 282: hw.close_valve(1) / hw.deactivate_pump(1)
TimerClose(k) ==
    /\ timers[k].pc = "close"
    /\ DeviceOff(timers[k].dev)
    /\ timers' = [timers EXCEPT ![k].pc = "flag"]
    /\ UNCHANGED <<main, closed, status, test_state, simulation_mode, running,
                   reservoir_levels, refilling, refill_locks, monitor, task, used>>

\* lines 243, 283: test_state["valve_active"] = False
TimerFlag(k) ==
    /\ timers[k].pc = "flag"
    /\ SetActive(timers[k].dev, FALSE)
    /\ timers' = [timers EXCEPT ![k].pc = "clear"]
    /\ UNCHANGED <<main, closed, status, hwvars, monitor, task, used, io_faults>>

\* lines 244-245, 284-285: test_state["valve_timer"] = None; the thread ends
TimerClear(k) ==
    /\ timers[k].pc = "clear"
    /\ SetTimer(timers[k].dev, 0)
    /\ timers' = [timers EXCEPT ![k] = IdleTimer]
    /\ UNCHANGED <<main, closed, status, hwvars, monitor, task, used, io_faults>>

\* ---------------------------------------------------------------- cleanup
\* cleanup() on the main thread (app.py line 346).
\* line 342: self.running = False
CleanupStop ==
    /\ main.pc = "serving"
    /\ running' = FALSE
    /\ main' = [pc |-> "c_join", r |-> 0]
    /\ UNCHANGED <<simulation_mode, reservoir_levels, refilling, refill_locks,
                   pumps, valves, monitor, task, used, io_faults, closed, status,
                   testvars>>

\* lines 343-344: join(timeout=5) returns when the monitor thread has ended
\* or when the 5 s are over, whichever comes first.
CleanupJoin ==
    /\ main.pc = "c_join"
    /\ main' = [pc |-> "c_mode", r |-> 0]
    /\ UNCHANGED <<hwvars, monitor, task, used, io_faults, closed, status,
                   testvars>>

\* lines 346-348: in simulation mode cleanup returns here
CleanupMode ==
    /\ main.pc = "c_mode"
    /\ main' = IF simulation_mode
               THEN [pc |-> "c_done", r |-> 0]
               ELSE [pc |-> "c_pumps", r |-> 1]
    /\ UNCHANGED <<hwvars, monitor, task, used, io_faults, closed, status,
                   testvars>>

\* lines 352-353: for pump_num in PUMP_PINS: self.deactivate_pump(pump_num)
CleanupPump ==
    /\ main.pc = "c_pumps"
    /\ deactivate_pump(main.r)
    /\ main' = IF main.r < 4
               THEN [main EXCEPT !.r = @ + 1]
               ELSE [pc |-> "c_valves", r |-> 1]
    /\ UNCHANGED <<simulation_mode, running, reservoir_levels, refilling,
                   refill_locks, valves, monitor, task, used, closed, status,
                   testvars>>

\* lines 355-356: for valve_num in VALVE_PINS: self.close_valve(valve_num)
CleanupValve ==
    /\ main.pc = "c_valves"
    /\ close_valve(main.r)
    /\ main' = IF main.r < 4
               THEN [main EXCEPT !.r = @ + 1]
               ELSE [pc |-> "c_close", r |-> 0]
    /\ UNCHANGED <<simulation_mode, running, reservoir_levels, refilling,
                   refill_locks, pumps, monitor, task, used, closed, status,
                   testvars>>

\* What a closed output device leaves on its relay: gpiozero releases the
\* pin, and whether the line then keeps its level is the pin factory's
\* affair, so either the relays stay as they are or all of them drop.
AfterClose(relays) == {relays, [n \in DOMAIN relays |-> FALSE]}

\* lines 358-373: pump.close(), valve.close(), float_switch.close() for every
\* device; a close that raises ends the try block (lines 370-371) with the
\* devices still open.  cleanup then returns.
CleanupClose ==
    /\ main.pc = "c_close"
    /\ \/ /\ closed' = TRUE
          /\ pumps' \in AfterClose(pumps)
          /\ valves' \in AfterClose(valves)
          /\ UNCHANGED io_faults
       \/ /\ io_faults < MaxIoFaults
          /\ io_faults' = io_faults + 1
          /\ UNCHANGED <<closed, pumps, valves>>
    /\ main' = [pc |-> "c_done", r |-> 0]
    /\ UNCHANGED <<simulation_mode, running, reservoir_levels, refilling,
                   refill_locks, monitor, task, used, status, testvars>>

\* One step of cleanup once it has been called
CleanupStep ==
    \/ CleanupJoin
    \/ CleanupMode
    \/ CleanupPump
    \/ CleanupValve
    \/ CleanupClose

\* ------------------------------------------------------------------- next
Next ==
    \/ \E t \in Tasks, valve_num \in CallIds, ml \in PourVolumes :
          PourCall(t, valve_num, ml)
    \/ \E t \in Tasks : PourClose(t)
    \/ \E t \in Tasks : PourFault(t)
    \/ \E t \in Tasks : PourRead(t)
    \/ \E t \in Tasks : PourWrite(t)
    \/ \E t \in Tasks : PourCheck(t)
    \/ \E t \in Tasks : PourClamp(t)
    \/ \E t \in Tasks, reservoir_num \in CallIds : RefillCall(t, reservoir_num)
    \/ \E t \in Tasks : RefillStart(t)
    \/ \E t \in Tasks : RefillSetFlag(t)
    \/ \E t \in Tasks : RefillNeeded(t)
    \/ \E t \in Tasks : RefillPump(t)
    \/ \E t \in Tasks : RefillFillRead(t)
    \/ \E t \in Tasks : RefillFillWrite(t)
    \/ \E t \in Tasks : RefillFloat(t)
    \/ \E t \in Tasks : RefillFault(t)
    \/ \E t \in Tasks : RefillStop(t)
    \/ \E t \in Tasks : RefillReset(t)
    \/ \E t \in Tasks : RefillClear(t)
    \/ \E t \in Tasks : RefillRelease(t)
    \/ \E t \in Tasks : Reap(t)
    \/ MonitorRead
    \/ MonitorCheck
    \/ MonitorWake
    \/ MonitorFault

Spec == Init /\ [][Next]_vars

\* ------------------------------------------------- refills and the monitor
\* The instance after pours have drawn reservoir 1 down (two pours of 300 ml
\* take it from 400 to 100 and to 0); from here only refill requests and the
\* level monitor act.
RefillInit ==
    /\ simulation_mode \in BOOLEAN
    /\ running = TRUE
    /\ reservoir_levels \in
          {[r \in PUMP_PINS |-> IF r \in Drawn THEN l ELSE Capacity] :
              l \in {Capacity, Threshold, 0}}
    /\ refilling = [r \in PUMP_PINS |-> FALSE]
    /\ refill_locks = [r \in PUMP_PINS |-> FALSE]
    /\ pumps = [r \in PUMP_PINS |-> FALSE]
    /\ valves = [r \in VALVE_PINS |-> FALSE]
    /\ monitor = [pc |-> "m_read", r |-> 1]
    /\ task = [t \in Tasks |-> IdleTask]
    /\ used = NothingUsed
    /\ Constructed
    /\ io_faults = 0

RefillNext ==
    \/ \E t \in Tasks, reservoir_num \in CallIds : RefillCall(t, reservoir_num)
    \/ \E t \in Tasks : RefillStart(t)
    \/ \E t \in Tasks : RefillSetFlag(t)
    \/ \E t \in Tasks : RefillNeeded(t)
    \/ \E t \in Tasks : RefillPump(t)
    \/ \E t \in Tasks : RefillFillRead(t)
    \/ \E t \in Tasks : RefillFillWrite(t)
    \/ \E t \in Tasks : RefillFloat(t)
    \/ \E t \in Tasks : RefillFault(t)
    \/ \E t \in Tasks : RefillStop(t)
    \/ \E t \in Tasks : RefillReset(t)
    \/ \E t \in Tasks : RefillClear(t)
    \/ \E t \in Tasks : RefillRelease(t)
    \/ \E t \in Tasks : Reap(t)
    \/ MonitorRead
    \/ MonitorCheck
    \/ MonitorWake
    \/ MonitorFault

RefillSpec == RefillInit /\ [][RefillNext]_vars

\* One step of a started refill thread: the scheduler runs every thread that
\* can run, so a thread is not held up forever.
RefillStep(t) ==
    \/ RefillStart(t)
    \/ RefillSetFlag(t)
    \/ RefillNeeded(t)
    \/ RefillPump(t)
    \/ RefillFillRead(t)
    \/ RefillFillWrite(t)
    \/ RefillFloat(t)
    \/ RefillStop(t)
    \/ RefillReset(t)
    \/ RefillClear(t)
    \/ RefillRelease(t)

MonitorStep == MonitorRead \/ MonitorCheck \/ MonitorWake

\* Devices whose reads and writes all succeed from here on: the device
\* failures of the behaviour lie in the past.
ReliableInit ==
    /\ simulation_mode \in BOOLEAN
    /\ running = TRUE
    /\ reservoir_levels \in
          {[r \in PUMP_PINS |-> IF r \in Drawn THEN l ELSE Capacity] :
              l \in {Capacity, Threshold, 0}}
    /\ refilling = [r \in PUMP_PINS |-> FALSE]
    /\ refill_locks = [r \in PUMP_PINS |-> FALSE]
    /\ pumps = [r \in PUMP_PINS |-> FALSE]
    /\ valves = [r \in VALVE_PINS |-> FALSE]
    /\ monitor = [pc |-> "m_read", r |-> 1]
    /\ task = [t \in Tasks |-> IdleTask]
    /\ used = NothingUsed
    /\ Constructed
    /\ io_faults = MaxIoFaults

\* Refills and the monitor on reliable devices, with every thread scheduled.
FairRefillSpec ==
    /\ ReliableInit
    /\ [][RefillNext]_vars
    /\ \A t \in Tasks : WF_vars(RefillStep(t))
    /\ WF_vars(MonitorStep)

\* -------------------------------------------------------------- pours alone
\* The pour calls of callers that pour from a reservoir one pour at a time
\* (the drink thread of app.py pours its ingredients in turn; the tests pour
\* from distinct valves in parallel), with no refill running.
PourIds == {1, 2}
\* the volumes poured here: PourVolumes and one that the time limit leaves alone
SmallPourVolumes == PourVolumes \cup {50}
PourInFlight(valve_num) ==
    \E t \in Tasks : /\ task[t].op = "pour"
                     /\ task[t].r = valve_num
                     /\ task[t].pc \notin {"idle", "done"}

PourRequest(t, valve_num, ml) ==
    /\ ~PourInFlight(valve_num)
    /\ PourCall(t, valve_num, ml)

\* One step of a pour in flight
PourStep(t) ==
    \/ PourClose(t)
    \/ PourRead(t)
    \/ PourWrite(t)
    \/ PourCheck(t)
    \/ PourClamp(t)

PourNext ==
    \/ \E t \in Tasks, valve_num \in PourIds, ml \in SmallPourVolumes :
          PourRequest(t, valve_num, ml)
    \/ \E t \in Tasks : PourClose(t)
    \/ \E t \in Tasks : PourFault(t)
    \/ \E t \in Tasks : PourRead(t)
    \/ \E t \in Tasks : PourWrite(t)
    \/ \E t \in Tasks : PourCheck(t)
    \/ \E t \in Tasks : PourClamp(t)
    \/ \E t \in Tasks : Reap(t)

PourSpec == Init /\ [][PourNext]_vars

\* --------------------------------------------------------- pours at once
\* Callers that pour without waiting for one another, also from the same
\* reservoir (two drink threads of app.py in flight, or threads that call
\* hw.pour directly); no refill runs and no exception is injected.
OverlapNext ==
    \/ \E t \in Tasks, valve_num \in PourIds, ml \in SmallPourVolumes :
          PourCall(t, valve_num, ml)
    \/ \E t \in Tasks : PourClose(t)
    \/ \E t \in Tasks : PourRead(t)
    \/ \E t \in Tasks : PourWrite(t)
    \/ \E t \in Tasks : PourCheck(t)
    \/ \E t \in Tasks : PourClamp(t)
    \/ \E t \in Tasks : Reap(t)

OverlapSpec == Init /\ [][OverlapNext]_vars

\* ------------------------------------------- pours in sequence, monitored
\* The instance as constructed, its monitor running, and a caller that pours
\* from the drawn reservoir one pour after the other; the only refills are
\* those the monitor starts.  No exception is injected.
SeqPourNext ==
    \/ \E t \in Tasks, valve_num \in Drawn, ml \in SmallPourVolumes :
          PourRequest(t, valve_num, ml)
    \/ \E t \in Tasks : PourClose(t)
    \/ \E t \in Tasks : PourRead(t)
    \/ \E t \in Tasks : PourWrite(t)
    \/ \E t \in Tasks : PourCheck(t)
    \/ \E t \in Tasks : PourClamp(t)
    \/ \E t \in Tasks : RefillStart(t)
    \/ \E t \in Tasks : RefillSetFlag(t)
    \/ \E t \in Tasks : RefillNeeded(t)
    \/ \E t \in Tasks : RefillPump(t)
    \/ \E t \in Tasks : RefillFillRead(t)
    \/ \E t \in Tasks : RefillFillWrite(t)
    \/ \E t \in Tasks : RefillFloat(t)
    \/ \E t \in Tasks : RefillStop(t)
    \/ \E t \in Tasks : RefillReset(t)
    \/ \E t \in Tasks : RefillClear(t)
    \/ \E t \in Tasks : RefillRelease(t)
    \/ \E t \in Tasks : Reap(t)
    \/ MonitorRead
    \/ MonitorCheck
    \/ MonitorWake

SeqPourSpec == Init /\ [][SeqPourNext]_vars

\* ------------------------------------------------------- the monitor alone
\* The instance with reservoir 1, and possibly reservoir 2, drawn down to the
\* threshold by earlier pours, and the monitor as the only source of refills.
MonitorInit ==
    /\ simulation_mode \in BOOLEAN
    /\ running = TRUE
    /\ reservoir_levels \in
          {[r \in PUMP_PINS |-> IF r = 1 THEN l1 ELSE IF r = 2 THEN l2 ELSE Capacity] :
              l1 \in {Threshold}, l2 \in {Capacity, Threshold}}
    /\ refilling = [r \in PUMP_PINS |-> FALSE]
    /\ refill_locks = [r \in PUMP_PINS |-> FALSE]
    /\ pumps = [r \in PUMP_PINS |-> FALSE]
    /\ valves = [r \in VALVE_PINS |-> FALSE]
    /\ monitor = [pc |-> "m_read", r |-> 1]
    /\ task = [t \in Tasks |-> IdleTask]
    /\ used = NothingUsed
    /\ Constructed
    /\ io_faults = 0

MonitorNext ==
    \/ \E t \in Tasks : RefillStart(t)
    \/ \E t \in Tasks : RefillSetFlag(t)
    \/ \E t \in Tasks : RefillNeeded(t)
    \/ \E t \in Tasks : RefillPump(t)
    \/ \E t \in Tasks : RefillFillRead(t)
    \/ \E t \in Tasks : RefillFillWrite(t)
    \/ \E t \in Tasks : RefillFloat(t)
    \/ \E t \in Tasks : RefillFault(t)
    \/ \E t \in Tasks : RefillStop(t)
    \/ \E t \in Tasks : RefillReset(t)
    \/ \E t \in Tasks : RefillClear(t)
    \/ \E t \in Tasks : RefillRelease(t)
    \/ \E t \in Tasks : Reap(t)
    \/ MonitorRead
    \/ MonitorCheck
    \/ MonitorWake
    \/ MonitorFault

MonitorSpec == MonitorInit /\ [][MonitorNext]_vars

\* Every thread that can run is scheduled: the monitor, each refill thread,
\* and the exit of a finished thread.
FairMonitorSpec ==
    /\ MonitorInit
    /\ [][MonitorNext]_vars
    /\ \A t \in Tasks : WF_vars(RefillStep(t))
    /\ \A t \in Tasks : WF_vars(Reap(t))
    /\ WF_vars(MonitorStep)

\* ---------------------------------------------------------------- shutdown
\* The drawn reservoir at the threshold, the monitor, the refills it starts,
\* and cleanup called at any moment.
ShutdownInit ==
    /\ simulation_mode \in BOOLEAN
    /\ running = TRUE
    /\ reservoir_levels = [r \in PUMP_PINS |-> IF r \in Drawn THEN Threshold
                                                            ELSE Capacity]
    /\ refilling = [r \in PUMP_PINS |-> FALSE]
    /\ refill_locks = [r \in PUMP_PINS |-> FALSE]
    /\ pumps = [r \in PUMP_PINS |-> FALSE]
    /\ valves = [r \in VALVE_PINS |-> FALSE]
    /\ monitor = [pc |-> "m_read", r |-> 1]
    /\ task = [t \in Tasks |-> IdleTask]
    /\ used = NothingUsed
    /\ Constructed
    /\ io_faults = 0

ShutdownNext ==
    \/ \E t \in Tasks : RefillStart(t)
    \/ \E t \in Tasks : RefillSetFlag(t)
    \/ \E t \in Tasks : RefillNeeded(t)
    \/ \E t \in Tasks : RefillPump(t)
    \/ \E t \in Tasks : RefillFillRead(t)
    \/ \E t \in Tasks : RefillFillWrite(t)
    \/ \E t \in Tasks : RefillFloat(t)
    \/ \E t \in Tasks : RefillStop(t)
    \/ \E t \in Tasks : RefillReset(t)
    \/ \E t \in Tasks : RefillClear(t)
    \/ \E t \in Tasks : RefillRelease(t)
    \/ \E t \in Tasks : Reap(t)
    \/ MonitorRead
    \/ MonitorCheck
    \/ MonitorWake
    \/ MonitorFault
    \/ CleanupStop
    \/ CleanupJoin
    \/ CleanupMode
    \/ CleanupPump
    \/ CleanupValve
    \/ CleanupClose

ShutdownSpec == ShutdownInit /\ [][ShutdownNext]_vars

\* Every thread that can run is scheduled.
FairShutdownSpec ==
    /\ ShutdownInit
    /\ [][ShutdownNext]_vars
    /\ \A t \in Tasks : WF_vars(RefillStep(t))
    /\ \A t \in Tasks : WF_vars(Reap(t))
    /\ WF_vars(MonitorStep)
    /\ WF_vars(CleanupStep)

\* ------------------------------------------------------------ the lifetime
\* BartenderHardware(simulation_mode) from line 35 on: the fields set, the
\* monitor not yet started, _init_gpio about to run; then, once the
\* constructor has returned, pours from the drawn reservoir, the monitor and
\* the refills it starts.
ConstructInit ==
    /\ simulation_mode \in BOOLEAN
    /\ running = FALSE
    /\ reservoir_levels = [r \in PUMP_PINS |-> Capacity]
    /\ refilling = [r \in PUMP_PINS |-> FALSE]
    /\ refill_locks = [r \in PUMP_PINS |-> FALSE]
    /\ pumps = [r \in PUMP_PINS |-> FALSE]
    /\ valves = [r \in VALVE_PINS |-> FALSE]
    /\ monitor = [pc |-> "m_unstarted", r |-> 0]
    /\ task = [t \in Tasks |-> IdleTask]
    /\ used = NothingUsed
    /\ main = [pc |-> "init_gpio", r |-> 0]
    /\ closed = FALSE
    /\ status = InitialStatus
    /\ NoTimers
    /\ io_faults = 0

LifetimeNext ==
    \/ InitGpio
    \/ StartMonitoring
    \/ \E t \in Tasks, valve_num \in Drawn :
          main = Serving /\ PourRequest(t, valve_num, 300)
    \/ \E t \in Tasks : PourClose(t)
    \/ \E t \in Tasks : PourRead(t)
    \/ \E t \in Tasks : PourWrite(t)
    \/ \E t \in Tasks : PourCheck(t)
    \/ \E t \in Tasks : PourClamp(t)
    \/ \E t \in Tasks : RefillStart(t)
    \/ \E t \in Tasks : RefillSetFlag(t)
    \/ \E t \in Tasks : RefillNeeded(t)
    \/ \E t \in Tasks : RefillPump(t)
    \/ \E t \in Tasks : RefillFillRead(t)
    \/ \E t \in Tasks : RefillFillWrite(t)
    \/ \E t \in Tasks : RefillFloat(t)
    \/ \E t \in Tasks : RefillStop(t)
    \/ \E t \in Tasks : RefillReset(t)
    \/ \E t \in Tasks : RefillClear(t)
    \/ \E t \in Tasks : RefillRelease(t)
    \/ \E t \in Tasks : Reap(t)
    \/ MonitorRead
    \/ MonitorCheck
    \/ MonitorWake

LifetimeSpec == ConstructInit /\ [][LifetimeNext]_vars

\* ------------------------------------------------------ the device methods
\* The device methods and the status query called one after the other, with
\* device numbers in and out of range, on the instance as constructed.
DeviceNext ==
    \/ \E t \in Tasks, n \in CallIds : ActivatePumpCall(t, n)
    \/ \E t \in Tasks, n \in CallIds : DeactivatePumpCall(t, n)
    \/ \E t \in Tasks, n \in CallIds : OpenValveCall(t, n)
    \/ \E t \in Tasks, n \in CallIds : CloseValveCall(t, n)
    \/ \E t \in Tasks, n \in CallIds : ReadFloatCall(t, n)
    \/ GetStatus
    \/ \E t \in Tasks : Reap(t)

DeviceSpec == RefillInit /\ [][DeviceNext]_vars

\* ----------------------------------------------------- overrides and reads
\* Direct device calls and status queries next to the monitor and the
\* refills it starts.
ManualNext ==
    \/ \E t \in Tasks, n \in Drawn : ActivatePumpCall(t, n)
    \/ \E t \in Tasks, n \in Drawn : DeactivatePumpCall(t, n)
    \/ \E t \in Tasks, n \in Drawn : OpenValveCall(t, n)
    \/ \E t \in Tasks, n \in Drawn : CloseValveCall(t, n)
    \/ \E t \in Tasks, n \in Drawn : ReadFloatCall(t, n)
    \/ GetStatus
    \/ \E t \in Tasks : RefillStart(t)
    \/ \E t \in Tasks : RefillSetFlag(t)
    \/ \E t \in Tasks : RefillNeeded(t)
    \/ \E t \in Tasks : RefillPump(t)
    \/ \E t \in Tasks : RefillFillRead(t)
    \/ \E t \in Tasks : RefillFillWrite(t)
    \/ \E t \in Tasks : RefillFloat(t)
    \/ \E t \in Tasks : RefillStop(t)
    \/ \E t \in Tasks : RefillReset(t)
    \/ \E t \in Tasks : RefillClear(t)
    \/ \E t \in Tasks : RefillRelease(t)
    \/ \E t \in Tasks : Reap(t)
    \/ MonitorRead
    \/ MonitorCheck
    \/ MonitorWake

ManualSpec == ShutdownInit /\ [][ManualNext]_vars

\* ------------------------------------------------------------- the drinks
\* Requests to POST /api/pour/<drink_name> arriving at any moment, the drink
\* threads they start and the pours of these, on full reservoirs.
DrinkInit ==
    /\ simulation_mode \in BOOLEAN
    /\ running = TRUE
    /\ reservoir_levels = [r \in PUMP_PINS |-> Capacity]
    /\ refilling = [r \in PUMP_PINS |-> FALSE]
    /\ refill_locks = [r \in PUMP_PINS |-> FALSE]
    /\ pumps = [r \in PUMP_PINS |-> FALSE]
    /\ valves = [r \in VALVE_PINS |-> FALSE]
    /\ monitor = [pc |-> "m_read", r |-> 1]
    /\ task = [t \in Tasks |-> IdleTask]
    /\ used = NothingUsed
    /\ Constructed
    /\ io_faults = 0

DrinkSpecNext ==
    \/ \E t \in Tasks, drink_name \in DrinkNames : PourDrink(t, drink_name)
    \/ \E t \in Tasks : DrinkBegin(t)
    \/ \E t \in Tasks : DrinkName(t)
    \/ \E t \in Tasks : DrinkNext(t)
    \/ \E t \in Tasks : DrinkWait(t)
    \/ \E t \in Tasks : DrinkFinally(t)
    \/ \E t \in Tasks : DrinkClear(t)
    \/ \E t \in Tasks : PourClose(t)
    \/ \E t \in Tasks : PourFault(t)
    \/ \E t \in Tasks : PourRead(t)
    \/ \E t \in Tasks : PourWrite(t)
    \/ \E t \in Tasks : PourCheck(t)
    \/ \E t \in Tasks : PourClamp(t)
    \/ GetStatus
    \/ \E t \in Tasks : Reap(t)

DrinkSpec == DrinkInit /\ [][DrinkSpecNext]_vars

\* ------------------------------------------------ refills side by side
\* Manual refill requests for two reservoirs arriving at any moment, the
\* first reservoir at the threshold, the second at the threshold or full.
SideBySideNext ==
    \/ \E t \in Tasks, reservoir_num \in PourIds : RefillCall(t, reservoir_num)
    \/ \E t \in Tasks : RefillSetFlag(t)
    \/ \E t \in Tasks : RefillNeeded(t)
    \/ \E t \in Tasks : RefillPump(t)
    \/ \E t \in Tasks : RefillFillRead(t)
    \/ \E t \in Tasks : RefillFillWrite(t)
    \/ \E t \in Tasks : RefillFloat(t)
    \/ \E t \in Tasks : RefillFault(t)
    \/ \E t \in Tasks : RefillStop(t)
    \/ \E t \in Tasks : RefillReset(t)
    \/ \E t \in Tasks : RefillClear(t)
    \/ \E t \in Tasks : RefillRelease(t)
    \/ \E t \in Tasks : Reap(t)

SideBySideSpec == MonitorInit /\ [][SideBySideNext]_vars

\* One step of a drink thread, inside hw.pour or around it
DrinkStep(t) ==
    \/ DrinkBegin(t)
    \/ DrinkName(t)
    \/ DrinkNext(t)
    \/ DrinkWait(t)
    \/ DrinkFinally(t)
    \/ DrinkClear(t)
    \/ PourStep(t)

\* The drink threads that have not poured their ingredient yet
DrinksToPour ==
    {t \in Tasks : task[t].drink # 0 /\ task[t].pc \in {"d_start", "d_name", "d_next"}}

\* A request the pour budget of the behaviour still covers
DrinkRequest(t, drink_name) ==
    /\ used.pours + Cardinality(DrinksToPour) < MaxPours
    /\ PourDrink(t, drink_name)

FairDrinkNext ==
    \/ \E t \in Tasks, drink_name \in DrinkNames : DrinkRequest(t, drink_name)
    \/ \E t \in Tasks : DrinkBegin(t)
    \/ \E t \in Tasks : DrinkName(t)
    \/ \E t \in Tasks : DrinkNext(t)
    \/ \E t \in Tasks : DrinkWait(t)
    \/ \E t \in Tasks : DrinkFinally(t)
    \/ \E t \in Tasks : DrinkClear(t)
    \/ \E t \in Tasks : PourClose(t)
    \/ \E t \in Tasks : PourFault(t)
    \/ \E t \in Tasks : PourRead(t)
    \/ \E t \in Tasks : PourWrite(t)
    \/ \E t \in Tasks : PourCheck(t)
    \/ \E t \in Tasks : PourClamp(t)
    \/ GetStatus
    \/ \E t \in Tasks : Reap(t)

\* Every drink thread that can run is scheduled.
FairDrinkSpec ==
    /\ DrinkInit
    /\ [][FairDrinkNext]_vars
    /\ \A t \in Tasks : WF_vars(DrinkStep(t))

\* ------------------------------------------------------- the test routes
\* Start and stop requests for the test valve and the test pump arriving at
\* any moment, and the timer threads the start requests leave behind.
\* The requests come for one device at a time: none for the valve while
\* the pump is in use, and none for the pump while the valve is.
InUse(dev) ==
    \/ Energized(dev)
    \/ Active(dev)
    \/ \E t \in Tasks : task[t].op \in {StartOp(dev), StopOp(dev)}
    \/ \E k \in Timers : timers[k].dev = dev
OtherDevsIdle(dev) == \A other \in Devs \ {dev} : ~InUse(other)

TestModeNext ==
    \/ \E t \in Tasks, dev \in Devs : OtherDevsIdle(dev) /\ TestStartCall(t, dev)
    \/ \E t \in Tasks : TestStartOpen(t)
    \/ \E t \in Tasks : TestStartActive(t)
    \/ \E t \in Tasks : TestStartTimer(t)
    \/ \E t \in Tasks : TestStartStore(t)
    \/ \E t \in Tasks, dev \in Devs : OtherDevsIdle(dev) /\ TestStopCall(t, dev)
    \/ \E t \in Tasks : TestStopActive(t)
    \/ \E t \in Tasks : TestStopTimer(t)
    \/ \E k \in Timers : TimerFire(k)
    \/ \E k \in Timers : TimerClose(k)
    \/ \E k \in Timers : TimerFlag(k)
    \/ \E k \in Timers : TimerClear(k)
    \/ \E t \in Tasks : Reap(t)

TestModeSpec == DrinkInit /\ [][TestModeNext]_vars

\* ================================================================= claims
\* A refill thread between lock acquisition (line 243) and release (line 299)
HoldingPcs == {"r_flag", "r_needed", "r_pump", "r_fill_read", "r_fill_write",
               "r_float", "r_stop", "r_reset", "r_clear", "r_release"}
Holding(t) == task[t].pc \in HoldingPcs
Holders(r) == {t \in Tasks : Holding(t) /\ task[t].r = r}
\* A refill thread between the store of line 248 and the store of line 298
FlagPcs == HoldingPcs \ {"r_flag", "r_release"}

\* C1: for every reservoir at most one refill is between lock acquisition and
\* lock release, and while one is, the lock is held; a refill attempt that
\* found the lock held has returned and its thread never enters the refill
\* (it is not queued behind the holder).
C1_OneRefillPerReservoir ==
    /\ [](\A r \in PUMP_PINS :
            /\ Cardinality(Holders(r)) <= 1
            /\ (Holders(r) # {} => refill_locks[r]))
    /\ [][\A t \in Tasks :
            (task[t].pc = "done" /\ task[t].out = "busy")
               => task'[t].pc \in {"done", "idle"}]_vars

\* C1 witness: a second refill of r came back busy while the first still
\* holds r's lock.
C1_Witness ==
    \E t \in Tasks, u \in Tasks :
        /\ Holding(t)
        /\ task[u].pc = "done" /\ task[u].out = "busy"
        /\ task[u].r = task[t].r

\* C2 (as claimed): no pour on r is in its valve-open window (in its timed
\* wait, and in live mode with valve r energized) while a refill of r holds
\* r's lock.
C2_NoPourDuringRefill ==
    \A t \in Tasks, u \in Tasks :
        ~(/\ task[t].pc = "p_sleep"
          /\ simulation_mode \/ valves[task[t].r]
          /\ Holding(u) /\ task[u].r = task[t].r)

\* C3 (as claimed): when a refill that acquired the lock returns, on any
\* path, the pump of its reservoir is off.
C3_PumpOffOnReturn ==
    [][\A t \in Tasks :
          (Holding(t) /\ task'[t].pc = "done") => ~pumps'[task[t].r]]_vars

\* C4 (as claimed): when a pour that opened valve r returns, on any path, it
\* has closed the valve: a pour leaving its timed wait straight to the
\* caller leaves valve r closed.
C4_ValveClosedOnExit ==
    [][\A t \in Tasks :
          (task[t].pc = "p_sleep" /\ task'[t].pc = "done")
             => ~valves'[task[t].r]]_vars

\* C5: a refill that acquired r's lock returns, on every path, with
\* refilling[r] false and r's lock free; and r's lock is never held without
\* a refill in flight, so a later refill of r can acquire it.
C5_RefillReleases ==
    /\ [][\A t \in Tasks :
            (Holding(t) /\ task'[t].pc = "done")
               => (~refilling'[task[t].r] /\ ~refill_locks'[task[t].r])]_vars
    /\ [](\A r \in PUMP_PINS : refill_locks[r] => Holders(r) # {})

\* C5 witness: a refill of r ended by a fault in the loop has returned, and a
\* later refill of r holds the lock.
C5_Witness ==
    \E t \in Tasks, u \in Tasks :
        /\ task[t].pc = "done" /\ task[t].op = "refill" /\ task[t].out = "fault"
        /\ Holding(u) /\ task[u].r = task[t].r
        /\ refill_locks[task[u].r]

\* C6 (as claimed): refilling[r] is true exactly when some refill holds r's
\* lock.
C6_FlagIffLockHeld ==
    \A r \in PUMP_PINS : refilling[r] <=> Holders(r) # {}

\* C6 (amended): refilling[r] is true exactly when some refill of r is
\* between the store of line 248 and the store of line 298; so refilling[r]
\* implies that a refill holds r's lock, but not the converse.
C6_FlagWithinLock ==
    \A r \in PUMP_PINS :
        /\ refilling[r] <=> (\E t \in Tasks : task[t].pc \in FlagPcs /\ task[t].r = r)
        /\ refilling[r] => (Holders(r) # {} /\ refill_locks[r])

\* C6 witness: a refill holds r's lock after clearing the flag (refilling[r]
\* is false, the lock is held).
C6_Witness ==
    \E t \in Tasks :
        /\ task[t].pc = "r_release"
        /\ ~refilling[task[t].r]
        /\ refill_locks[task[t].r]

\* C7 (as claimed): every estimated level is within [0, capacity] in every
\* state.
C7_LevelInRange ==
    \A r \in PUMP_PINS :
        reservoir_levels[r] >= 0 /\ reservoir_levels[r] <= Capacity

\* C8 (as claimed): a refill that acquired the lock eventually is back at
\* idle: returned, pump off, lock released.
C8_RefillReturnsToIdle ==
    \A t \in Tasks, r \in PUMP_PINS :
        []((Holding(t) /\ task[t].r = r) =>
             <>(task[t].pc = "done" /\ ~pumps[r] /\ ~refill_locks[r]))

\* C9: a refill call that finds r's lock held returns in that same step and
\* leaves every level, flag, lock, pump and valve as it was.
C9_BusyChangesNothing ==
    [][\A t \in Tasks :
          (task'[t].pc = "done" /\ task'[t].out = "busy" /\ task[t].pc # "done")
             => /\ task[t].pc \in {"idle", "r_call"}
                /\ UNCHANGED <<reservoir_levels, refilling, refill_locks,
                               pumps, valves>>]_vars

\* C9 witness: the busy call has returned; the refill in flight still holds
\* the lock with its flag set.
C9_Witness ==
    \E t \in Tasks, u \in Tasks :
        /\ task[u].pc = "done" /\ task[u].op = "refill" /\ task[u].out = "busy"
        /\ task[t].pc \in FlagPcs /\ task[t].r = task[u].r
        /\ refilling[task[u].r] /\ refill_locks[task[u].r]

\* C10 (as claimed): a pour or refill called with a reservoir number outside
\* 1..4 ends with the invalid-number error, whatever the volume.
C10_InvalidIdRaises ==
    \A t \in Tasks :
        (task[t].pc = "done" /\ task[t].r \notin PUMP_PINS)
           => task[t].out = "ValueError"

\* C11: a pour of volume <= 0 from a valid reservoir returns in its first
\* step, which changes no level and no valve; such a pour is never at a
\* position past the first test (it never reaches open_valve or close_valve).
C11_NonPositivePourIsNoOp ==
    /\ [](\A t \in Tasks :
            (task[t].op = "pour" /\ task[t].ml <= 0 /\ task[t].r \in VALVE_PINS)
               => (task[t].pc = "done" /\ task[t].out = "return"))
    /\ [][\A t \in Tasks :
            (/\ task[t].pc = "idle"
             /\ task'[t].op = "pour"
             /\ task'[t].ml <= 0
             /\ task'[t].r \in VALVE_PINS)
               => UNCHANGED <<reservoir_levels, valves>>]_vars

\* C11 witness: pour(r, 0) has returned on a reservoir drawn down by an
\* earlier pour, while a pour on the other reservoir holds its valve open.
C11_Witness ==
    \E t \in Tasks, u \in Tasks :
        /\ task[t].pc = "done" /\ task[t].op = "pour" /\ task[t].ml <= 0
        /\ task[t].r \in VALVE_PINS
        /\ reservoir_levels[task[t].r] < Capacity
        /\ task[u].pc = "p_sleep" /\ valves[task[u].r]

\* C12: when pour(r, v) with v > 0 returns, with L the level of r when it
\* was called, the level of r is L - v if v <= L and 0 if v > L (no other
\* operation on r between the call and the return).
C12_PourPostcondition ==
    [][\A t \in Tasks :
          (/\ task[t].op = "pour"
           /\ task[t].pc \in {"p_check", "p_clamp"}
           /\ task'[t].pc = "done")
             => reservoir_levels'[task[t].r] =
                   (IF task[t].ml <= task[t].at_call
                    THEN task[t].at_call - task[t].ml
                    ELSE 0)]_vars

\* C12 witness: a pour of more than the level has returned and left the
\* reservoir at 0, after an earlier pour of less than the level.
C12_Witness ==
    \E t \in Tasks :
        /\ task[t].pc = "done" /\ task[t].op = "pour" /\ task[t].out = "return"
        /\ task[t].at_call > 0 /\ task[t].at_call < Capacity
        /\ task[t].ml > task[t].at_call
        /\ reservoir_levels[task[t].r] = 0

C14_PourTimeClamped ==
    /\ [](\A t \in Tasks :
            task[t].pc = "p_sleep" =>
               /\ task[t].wait <= MAX_POUR_TIME * Millis
               /\ IF task[t].ml <= MAX_POUR_TIME * ML_PER_SECOND * Scale
                  THEN task[t].wait * ML_PER_SECOND * Scale = task[t].ml * Millis
                  ELSE task[t].wait = MAX_POUR_TIME * Millis)
    /\ [][\A t \in Tasks :
            (task[t].pc = "p_sleep" /\ task'[t].pc = "p_read"
               /\ io_faults' = io_faults)
               => ~valves'[task[t].r]]_vars

\* C14 witness: a pour of 300 ml (37.5 s at 8 ml/s) waits 30 s with its valve
\* open while a pour of 50 ml on the other valve waits 6.25 s.
C14_Witness ==
    \E t \in Tasks, u \in Tasks :
        /\ task[t].pc = "p_sleep" /\ task[t].ml = 300 * Scale
        /\ task[t].wait = 30000 /\ valves[task[t].r]
        /\ task[u].pc = "p_sleep" /\ task[u].ml = 50 * Scale
        /\ task[u].wait = 6250

Max0(x) == IF x < 0 THEN 0 ELSE x

\* C15: pours on distinct reservoirs do not block one another (a pour in
\* flight can always take its next step, and a pour on another reservoir can
\* be called while one is in flight); every step of a pour leaves the levels
\* of the other reservoirs as they were; and once the pours on r have
\* returned, r's level is the capacity less the volumes poured from r
\* (not below 0).
C15_DistinctPoursIndependent ==
    /\ [](\A t \in Tasks :
            (task[t].op = "pour" /\ task[t].pc \notin {"idle", "done"})
               => /\ ENABLED PourStep(t)
                  /\ \A u \in Tasks, r \in PourIds \ {task[t].r} :
                        (FreeSlot(u) /\ used.pours < MaxPours /\ ~PourInFlight(r))
                           => ENABLED PourRequest(u, r, 50))
    /\ [][\A t \in Tasks :
            (task[t].op = "pour" /\ task'[t] # task[t])
               => \A r \in PUMP_PINS \ {task[t].r} :
                     reservoir_levels'[r] = reservoir_levels[r]]_vars
    /\ [](\A r \in PUMP_PINS :
            ~PourInFlight(r)
               => reservoir_levels[r] = Max0(Capacity - used.poured[r]))

\* C15 witness: a pour on one reservoir has stored its new level while a pour
\* on another reservoir, called when the first was in flight or before, still
\* holds its valve open; the other reservoir's level is untouched.
C15_Witness ==
    \E t \in Tasks, u \in Tasks :
        /\ task[t].pc = "p_check" /\ task[u].pc = "p_sleep"
        /\ task[t].r # task[u].r
        /\ reservoir_levels[task[t].r] = task[t].at_call - task[t].ml
        /\ reservoir_levels[task[u].r] = task[u].at_call
        /\ valves[task[u].r]

\* C16: a refill that acquired the lock leaves the polling loop either
\* because the float switch reported full or by the timeout branch; in both
\* cases, having met no fault, it has set the level of its reservoir to
\* capacity when it clears the flag, releases the lock and returns.
C16_RefillSetsCapacity ==
    /\ [](\A t \in Tasks :
            /\ task[t].pc \in {"r_stop", "r_reset"}
                  => task[t].out \in {"full", "timeout"}
            /\ (task[t].pc \in {"r_clear", "r_release"}
                   /\ task[t].out \in {"full", "timeout"})
                  => reservoir_levels[task[t].r] = Capacity)
    /\ [][\A t \in Tasks :
            (Holding(t) /\ task'[t].pc = "done" /\ task'[t].out = "return")
               => reservoir_levels'[task[t].r] = Capacity]_vars

\* C16 witness: in live mode a refill that read a level below capacity at
\* line 252 and left the loop by the timeout has reset the level to capacity
\* and is about to release the lock.
C16_Witness ==
    \E t \in Tasks :
        /\ ~simulation_mode
        /\ task[t].pc = "r_release" /\ task[t].out = "timeout"
        /\ task[t].at_call < Capacity
        /\ reservoir_levels[task[t].r] = Capacity

ReadsLow(r) ==
    \/ monitor.pc = "m_check" /\ monitor.r = r
    \/ simulation_mode /\ reservoir_levels[r] <= Threshold

Refilled(r) == reservoir_levels[r] = Capacity /\ ~refilling[r]

RefillInFlight(r) ==
    \E t \in Tasks : /\ task[t].op = "refill" /\ task[t].r = r
                     /\ task[t].pc \in HoldingPcs \cup {"r_call"}

C19_LaunchOnlyLowAndNotRefilling ==
    /\ [][\A t \in Tasks :
             (task[t].pc # "r_call" /\ task'[t].pc = "r_call")
                => /\ monitor.pc = "m_check"
                   /\ task'[t].op = "refill"
                   /\ task'[t].r = monitor.r
                   /\ ~refilling[monitor.r]]_vars
    /\ [][(monitor.pc # "m_check" /\ monitor'.pc = "m_check")
            => /\ monitor.pc = "m_read"
               /\ monitor'.r = monitor.r
               /\ simulation_mode
                     => reservoir_levels[monitor.r] <= Threshold]_vars
    /\ [][(monitor.pc = "m_check" /\ refilling[monitor.r])
            => \A t \in Tasks : task'[t].pc = "r_call" => task[t].pc = "r_call"]_vars

\* The monitor has started a refill thread for reservoir 2, read low, and has
\* moved on, while reservoir 1 is being refilled with its flag set.
C19_Witness ==
    /\ monitor.pc = "m_read" /\ monitor.r = 3
    /\ \E t \in Tasks : /\ task[t].pc = "r_call" /\ task[t].op = "refill"
                         /\ task[t].r = 2
    /\ \E t \in Tasks : task[t].pc \in FlagPcs /\ task[t].r = 1
    /\ refilling[1] /\ ~refilling[2]

\* The monitor's own steps: the poll of a float switch, the check that may
\* start a refill thread, the end of a sleep.
MonitorPolls == MonitorRead \/ MonitorCheck \/ MonitorWake

\* C20: the monitor's next step never depends on a refill thread.  While it
\* runs its next read, check or wake-up is possible whatever the refill
\* threads are doing (the check needing only a thread to start); a check of
\* reservoir r with refilling[r] false starts a refill thread for r while
\* the refills of other reservoirs go on untouched; and every completed
\* check moves on to the next reservoir or to the interval sleep.
C20_MonitorNeverWaits ==
    /\ []((monitor.pc # "m_stopped"
            /\ (monitor.pc = "m_check" /\ ~refilling[monitor.r]
                   => \E t \in Tasks : FreeSlot(t)))
          => ENABLED MonitorPolls)
    /\ [][(monitor.pc = "m_check" /\ monitor'.pc \in {"m_read", "m_sleep"})
            => /\ monitor' = MonitorAdvance(monitor.r)
               /\ ~refilling[monitor.r]
                     => \E t \in Tasks : /\ task'[t].pc = "r_call"
                                          /\ task'[t].r = monitor.r
                                          /\ task[t].pc \in {"idle", "done"}
               /\ \A u \in Tasks :
                     task[u].pc \notin {"idle", "done"} => task'[u] = task[u]]_vars

\* Reservoirs 1 and 2 are being refilled at once by threads the monitor
\* started, and the monitor is polling reservoir 3.
C20_Witness ==
    /\ monitor.pc = "m_read" /\ monitor.r = 3
    /\ refilling[1] /\ refilling[2]
    /\ \E t, u \in Tasks : /\ task[t].pc \in FlagPcs /\ task[t].r = 1
                            /\ task[u].pc \in FlagPcs /\ task[u].r = 2
                            /\ task[u].polls = 0

\* C21 (as claimed): at the step by which cleanup returns every pump and
\* every valve is off, and cleanup writes to the devices only after it has
\* cleared the running flag.
C21_CleanupDeEnergizes ==
    /\ [][(main.pc # "c_done" /\ main'.pc = "c_done")
            => \A r \in PUMP_PINS : ~pumps'[r] /\ ~valves'[r]]_vars
    /\ [](main.pc \in {"c_pumps", "c_valves", "c_close", "c_done"} => ~running)

\* C22: from the first step of cleanup on running is false for good; the
\* monitor then eventually leaves its loop; a monitor that ends a sleep with
\* running false starts no further iteration; and a monitor that has left
\* its loop stays out of it and starts no refill thread.
C22_MonitorStopsAfterCleanup ==
    /\ [](main.pc # "serving" => ~running)
    /\ (main.pc # "serving") ~> (monitor.pc = "m_stopped")
    /\ [][(~running /\ monitor.pc \in {"m_sleep", "m_backoff"})
            => monitor'.pc \in {monitor.pc, "m_stopped"}]_vars
    /\ [][monitor.pc = "m_stopped"
            => /\ monitor' = monitor
               /\ \A t \in Tasks :
                     task'[t].pc = "r_call" => task[t].pc = "r_call"]_vars

\* cleanup has returned and the monitor has left its loop, while a refill
\* the monitor started in its last iteration is still running.
C22_Witness ==
    /\ main.pc = "c_done"
    /\ ~running
    /\ monitor.pc = "m_stopped"
    /\ \E t \in Tasks : task[t].op = "refill" /\ task[t].pc \in FlagPcs

\* C23: in simulation mode every read of float switch r returns true exactly
\* when the level of r is strictly above the threshold: the monitor goes on
\* to its check of r (the read was low) exactly when the level is at or
\* below the threshold, and a refill leaves its polling loop as full exactly
\* when the level is above it.
C23_SimFloatIsLevelAboveThreshold ==
    /\ [][(/\ simulation_mode
            /\ monitor.pc = "m_read"
            /\ monitor'.pc \in {"m_read", "m_check", "m_sleep"}
            /\ monitor' # monitor)
            => /\ monitor.r \in FLOAT_PINS
               /\ (monitor'.pc = "m_check")
                     <=> (reservoir_levels[monitor.r] <= Threshold)]_vars
    /\ [][\A t \in Tasks :
            (/\ simulation_mode
             /\ task[t].pc = "r_float"
             /\ task'[t] # task[t]
             /\ task'[t].out # "fault")
               => ((task'[t].out = "full")
                     <=> (reservoir_levels[task[t].r] > Threshold))]_vars

\* In simulation mode the monitor has read float switch 1 low with the level
\* of reservoir 1 exactly at the threshold.
C23_Witness ==
    /\ simulation_mode
    /\ monitor.pc = "m_check" /\ monitor.r = 1
    /\ reservoir_levels[1] = Threshold

DeviceOps == {"activate_pump", "deactivate_pump", "open_valve", "close_valve",
              "read_float_switch"}

\* C24: in either mode, a call of activate_pump, deactivate_pump, open_valve,
\* close_valve or read_float_switch with a device number outside 1..4 ends
\* with ValueError and changes no pump, valve, level, flag or lock; with a
\* number in 1..4 none of them ends with ValueError.
C24_InvalidDeviceRaises ==
    [][\A t \in Tasks :
          (task[t].pc = "idle" /\ task'[t].pc = "done" /\ task'[t].op \in DeviceOps)
             => IF task'[t].r \in PUMP_PINS
                THEN task'[t].out # "ValueError"
                ELSE /\ task'[t].out = "ValueError"
                     /\ UNCHANGED <<pumps, valves, reservoir_levels, refilling,
                                    refill_locks, simulation_mode, io_faults>>]_vars

\* In live mode read_float_switch(5) and activate_pump(0) have both ended
\* with ValueError.
C24_Witness ==
    /\ ~simulation_mode
    /\ \E t, u \in Tasks :
          /\ task[t] = Done("read_float_switch", 5, 0, "ValueError")
          /\ task[u] = Done("activate_pump", 0, 0, "ValueError")

\* C25: a device that cannot be created during _init_gpio leaves the
\* instance in simulation mode with the constructor going on to start the
\* monitor, which it can always do; and once the constructor has returned
\* the mode never changes.
C25_InitFailureFallsBack ==
    /\ [][(main.pc = "init_gpio" /\ io_faults' > io_faults)
            => simulation_mode' /\ main'.pc = "start_monitoring"]_vars
    /\ [](main.pc = "start_monitoring" => ENABLED StartMonitoring)
    /\ [][main.pc \notin {"init_gpio", "start_monitoring"}
            => simulation_mode' = simulation_mode]_vars
    /\ []((main.pc = "init_gpio" /\ main.r > 0) => ~simulation_mode)

\* The instance was asked for in live mode, a device failed in _init_gpio,
\* and the monitor now runs in simulation mode.
C25_Witness ==
    /\ main = Serving
    /\ simulation_mode
    /\ io_faults = 1
    /\ running
    /\ monitor.pc = "m_sleep"

\* The direct device writes
RelayOps == {"activate_pump", "deactivate_pump", "open_valve", "close_valve"}

\* C26: in live mode a device access that fails is absorbed.  A direct float
\* read that fails returns True to its caller; a monitor read that fails
\* sends the monitor on to the next reservoir (or to its sleep) with no
\* refill thread started and no exception in the loop; a direct pump or
\* valve write that fails returns normally.  Failures occur in live mode only.
C26_DeviceFaultsAbsorbed ==
    /\ [][io_faults' > io_faults => ~simulation_mode]_vars
    /\ [][\A t \in Tasks :
            (/\ io_faults' > io_faults
             /\ task[t].pc = "idle"
             /\ task'[t].pc = "done"
             /\ task'[t].op = "read_float_switch")
               => task'[t].out = "True"]_vars
    /\ [][(io_faults' > io_faults /\ monitor.pc = "m_read" /\ monitor' # monitor)
            => /\ monitor' = MonitorAdvance(monitor.r)
               /\ task' = task]_vars
    /\ [][\A t \in Tasks :
            (/\ io_faults' > io_faults
             /\ task[t].pc = "idle"
             /\ task'[t].pc = "done"
             /\ task'[t].op \in RelayOps)
               => /\ task'[t].out = "return"
                  /\ pumps' = pumps /\ valves' = valves]_vars

\* A failed access has been absorbed: a direct read has returned True, the
\* monitor has gone past reservoir 1 and no refill runs.
C26_Witness ==
    /\ ~simulation_mode
    /\ io_faults = 1
    /\ task[1] = Done("read_float_switch", 1, 0, "True")
    /\ task[2] = IdleTask
    /\ monitor = [pc |-> "m_read", r |-> 2]
    /\ \A r \in PUMP_PINS : ~refilling[r] /\ ~pumps[r]

\* The drink threads in flight, and those of them inside hw.pour
DrinkThreads == {t \in Tasks : task[t].drink # 0 /\ task[t].pc \notin {"idle", "done"}}
DrinksPouring == {t \in DrinkThreads : task[t].op = "pour"}

\* C27: under any interleaving of requests to POST /api/pour/<drink_name>, at
\* most one drink thread is inside hw.pour at any time, and a request handled
\* while a drink thread is in flight starts no thread.
C27_OneDrinkInFlight ==
    /\ [](Cardinality(DrinksPouring) <= 1)
    /\ [][\A t \in Tasks :
            (/\ DrinkThreads # {}
             /\ task[t].pc = "idle"
             /\ task'[t].op = "pour_drink")
               => task'[t].pc = "done"]_vars

\* C28: a pour that returns hands back the estimated level of its reservoir:
\* the new level after a pour of a positive volume, the unchanged current
\* level after a pour of a volume that is zero or negative.
C28_PourReturnsLevel ==
    [][\A t \in Tasks :
          (/\ task[t].pc # "done"
           /\ task'[t].pc = "done"
           /\ task'[t].op = "pour"
           /\ task'[t].out = "return")
             => /\ task'[t].ret = <<reservoir_levels'[task'[t].r]>>
                /\ (task'[t].ml <= 0 => reservoir_levels' = reservoir_levels)]_vars

\* The levels, the refilling flags and the locks
LevelState == <<reservoir_levels, refilling, refill_locks>>
\* The step is one of thread t, running a pour or a refill
PourOrRefillStep(t) ==
    /\ task'[t] # task[t]
    /\ task[t].op \in {"pour", "refill"} \/ task'[t].op \in {"pour", "refill"}

\* C29: a level, a refilling flag or a lock changes only in a step of a pour
\* or of a refill; a status query, a direct pump or valve call, a direct
\* float read and a step of the monitor leave all of them unchanged.
C29_LevelsChangeOnlyInPourAndRefill ==
    /\ [][LevelState' # LevelState => \E t \in Tasks : PourOrRefillStep(t)]_vars
    /\ [][status' # status => LevelState' = LevelState]_vars
    /\ [][monitor' # monitor => LevelState' = LevelState]_vars
    /\ [][\A t \in Tasks :
            (task[t].pc = "idle" /\ task'[t].op \in DeviceOps)
               => LevelState' = LevelState]_vars

\* Live mode: the pump of reservoir 1 was switched on by a direct call, the
\* status query has copied the levels, the monitor has polled all four
\* reservoirs, and the level, flag and lock of reservoir 1 are as they were.
C29_Witness ==
    /\ ~simulation_mode
    /\ task[1] = Done("activate_pump", 1, 0, "return")
    /\ pumps[1]
    /\ status.reservoir_levels = reservoir_levels
    /\ monitor.pc = "m_sleep"
    /\ reservoir_levels[1] = Threshold
    /\ ~refilling[1]
    /\ ~refill_locks[1]

\* lines 252-254 in milliseconds: expected_time = (ml_needed / PUMP_FLOW_RATE)
\* * 60 and timeout = min(expected_time * 1.5, REFILL_TIMEOUT), for ml_needed
\* in 1/Scale ml (rounded down to the millisecond)
RefillTimeoutMs(ml_needed) ==
    Min((ml_needed * 60 * 3 * Millis) \div (Scale * PUMP_FLOW_RATE * 2),
        REFILL_TIMEOUT * Millis)
\* line 285: the poll interval, in milliseconds
PollMs == Millis \div TicksPerSecond
\* A refill thread inside the polling loop, past the test of line 266
LoopPcs == {"r_fill_read", "r_fill_write", "r_float"}
\* A refill thread past deactivate_pump (line 288) or past the loop by the
\* handler of line 295, still holding the lock
PastLoopPcs == {"r_reset", "r_clear", "r_release"}

\* C30: ml_needed is the capacity minus the level read once the lock is
\* held; a refill goes round its polling loop only while the time slept since
\* the pump was activated is at most min(1.5 x expected_time, REFILL_TIMEOUT),
\* so the loop is left at most one poll interval after the timeout; and once
\* the refill is past the loop, the pump is off (here: on devices whose
\* writes all took effect).
C30_PumpOffWithinTimeout ==
    /\ [][\A t \in Tasks :
            (task[t].pc = "r_needed" /\ task'[t].pc = "r_pump")
               => task'[t].needed = Capacity - reservoir_levels[task[t].r]]_vars
    /\ [](\A t \in Tasks :
            task[t].pc \in LoopPcs
               => task[t].polls * PollMs <= RefillTimeoutMs(task[t].needed))
    /\ [](\A t \in Tasks :
            (task[t].pc \in PastLoopPcs /\ io_faults = 0)
               => ~pumps[task[t].r])

\* The volume the valve dispenses in MAX_POUR_TIME, in 1/Scale ml
MaxDispensed == MAX_POUR_TIME * ML_PER_SECOND * Scale

\* C31: a pour of more than MAX_POUR_TIME * ML_PER_SECOND ml holds its valve
\* open for MAX_POUR_TIME only, leaves by a normal return unless an exception
\* strikes in the timed wait, and has lowered the level by the whole volume
\* asked for (to 0 at the lowest), not by the volume the shortened wait can
\* dispense.
C31_ClampedPourTakesFullVolume ==
    /\ [](\A t \in Tasks :
            (task[t].pc = "p_sleep" /\ task[t].ml > MaxDispensed)
               => task[t].wait = MAX_POUR_TIME * Millis)
    /\ [][\A t \in Tasks :
            (/\ task[t].op = "pour"
             /\ task[t].ml > MaxDispensed
             /\ task[t].pc \in {"p_check", "p_clamp"}
             /\ task'[t].pc = "done")
               => /\ task'[t].out = "return"
                  /\ reservoir_levels'[task[t].r] = Max0(task[t].at_call - task[t].ml)]_vars

\* C31 witness: a pour of 300 ml from the full reservoir has returned, and
\* the level is 100 ml, not the 160 ml that 30 s at 8 ml/s would leave.
C31_Witness ==
    \E t \in Tasks :
        /\ task[t].pc = "done" /\ task[t].op = "pour" /\ task[t].out = "return"
        /\ task[t].ml = 300 * Scale /\ task[t].at_call = Capacity
        /\ reservoir_levels[task[t].r] = Capacity - 300 * Scale
        /\ reservoir_levels[task[t].r] # Capacity - MaxDispensed

\* C32: a refill takes the busy path only when the lock of its own reservoir
\* is held; with that lock free it acquires it whatever the locks of the
\* other reservoirs; and refills of two reservoirs can be active together.
C32_DistinctRefillsIndependent ==
    /\ [][\A t \in Tasks :
            (/\ task[t].pc \in {"idle", "r_call"}
             /\ task'[t].pc = "done"
             /\ task'[t].op = "refill"
             /\ task'[t].out = "busy")
               => Holders(task'[t].r) # {}]_vars
    /\ [](\A t \in Tasks, r \in PourIds :
            (FreeSlot(t) /\ Holders(r) = {})
               => ENABLED (RefillCall(t, r) /\ task'[t].pc = "r_flag"))
    /\ [][\A t \in Tasks :
            (/\ task[t].pc \in {"idle", "r_call"}
             /\ task'[t].op = "refill"
             /\ task'[t].r \in PUMP_PINS
             /\ Holders(task'[t].r) = {})
               => task'[t].pc = "r_flag" /\ refill_locks'[task'[t].r]]_vars

\* C32 witness: the refills of reservoirs 1 and 2 are both inside their
\* polling loops, each holding the lock of its reservoir.
C32_Witness ==
    \E t \in Tasks, u \in Tasks :
        /\ task[t].pc \in LoopPcs /\ task[t].r = 1
        /\ task[u].pc \in LoopPcs /\ task[u].r = 2
        /\ refill_locks[1] /\ refill_locks[2]
        /\ refilling[1] /\ refilling[2]

\* C33: an exception inside a monitor iteration sends the monitor to its
\* back-off sleep, not out of its loop; with running true the sleep can end
\* and ends in a new iteration that starts at reservoir 1; and the monitor
\* then goes on to complete an iteration over all four reservoirs.
C33_MonitorSurvivesFault ==
    /\ [][(used.faults' > used.faults /\ monitor' # monitor)
            => monitor'.pc = "m_backoff"]_vars
    /\ []((monitor.pc = "m_backoff" /\ running) => ENABLED MonitorWake)
    /\ [][(monitor.pc = "m_backoff" /\ running /\ monitor' # monitor)
            => monitor' = [pc |-> "m_read", r |-> 1]]_vars
    /\ (monitor.pc = "m_backoff") ~> (monitor.pc = "m_read" /\ monitor.r = 4)
    /\ (monitor.pc = "m_backoff") ~> (monitor.pc = "m_sleep")

\* C33 witness: live mode, the monitor met an exception (no refill got as
\* far as its pump) and is polling again, at the fourth reservoir.
C33_Witness ==
    /\ ~simulation_mode
    /\ used.faults = 1
    /\ io_faults = 0
    /\ monitor = [pc |-> "m_read", r |-> 4]
    /\ reservoir_levels[1] = Threshold
    /\ \A r \in PUMP_PINS : ~pumps[r]
    /\ \A t \in Tasks : task[t] = IdleTask

\* A drink thread past line 110 and not yet in its finally block
DrinkPouringPcs == {"d_next", "d_wait", "p_sleep", "p_read", "p_write",
                    "p_check", "p_clamp"}

\* C34: while a drink thread pours its ingredients status.pouring is true;
\* every drink thread started eventually ends, through its finally block,
\* also when hw.pour raised; and once no drink thread is in flight
\* status.pouring is false and current_drink is none.
C34_PouringFlagFollowsDrink ==
    /\ [](\A t \in Tasks :
            (task[t].drink # 0 /\ task[t].pc \in DrinkPouringPcs)
               => status.pouring)
    /\ \A t \in Tasks :
          (task[t].pc = "d_start")
             ~> (task[t].pc = "done" /\ task[t].op = "pour_drink"
                                     /\ task[t].out = "return")
    /\ [](DrinkThreads = {} => (~status.pouring /\ status.current_drink = 0))

\* A start or stop request for dev is being handled
TestRequestInFlight(dev) ==
    \E t \in Tasks : /\ task[t].op \in {StartOp(dev), StopOp(dev)}
                     /\ task[t].pc \notin {"idle", "done"}
\* A timer thread that will switch dev off: it is about to, or it sleeps and
\* will find the active flag set
WillSwitchOff(dev) ==
    \E k \in Timers :
        /\ timers[k].dev = dev
        /\ \/ timers[k].pc = "close"
           \/ timers[k].pc = "sleep" /\ Active(dev)

\* C35: under any interleaving of start and stop requests, with every
\* device write taking effect, the test valve (the test pump) is never left
\* energized, once the requests have been handled, with no timer thread that
\* will switch it off when its 60 s are over.
C35_TestDeviceHasPendingTimer ==
    \A dev \in Devs :
        (Energized(dev) /\ ~TestRequestInFlight(dev) /\ io_faults = 0)
           => WillSwitchOff(dev)

\* C36: with every device write taking effect (and no manual override, which
\* the refill specification does not have), pump r is energized only while
\* refilling[r] is true.
C36_PumpOnlyWhileRefilling ==
    io_faults = 0 => \A r \in PUMP_PINS : pumps[r] => refilling[r]

\* C37: once cleanup has returned no step energizes a pump or a valve: a
\* relay that is on after the step was on before it.
C37_NoRelayOnAfterCleanup ==
    [][main.pc = "c_done"
         => \A r \in PUMP_PINS : /\ pumps'[r] => pumps[r]
                                 /\ valves'[r] => valves[r]]_vars

\* C38: pours from one reservoir that overlap in time each take effect on
\* the level: once the pours from r have all returned (no refill having run),
\* the level of r is the level the reservoir started with less the volumes
\* of the returned pours, and not below 0.
C38_NoLostUpdate ==
    \A r \in PourIds :
        ~PourInFlight(r)
           => LET left == Capacity - used.poured[r]
              IN  reservoir_levels[r] = IF left < 0 THEN 0 ELSE left

====
